---- MODULE Spec2Model ----
(***************************************************************************)
(* A model of the systemd-actuated legacy (cgroup v1) manager:             *)
(*   systemd/common.go   ExpandSlice, getUnitName, startUnit, stopUnit,    *)
(*                       resetFailedUnit, setUnitProperties,               *)
(*                       systemdVersion, addCpuQuota, addCpuset            *)
(*   the legacy manager  LegacyManager.Apply / Destroy / GetPaths /        *)
(*                       GetStats / Freeze / Set / GetPids, joinCgroups,   *)
(*                       setKernelMemory, genV1ResourcesProperties         *)
(*                                                                         *)
(* Strings are TLA+ strings; Len, SubSeq and \o act on them as Go's len,   *)
(* slicing and + do.                                                       *)
(***************************************************************************)
EXTENDS Integers, Sequences, FiniteSets, TLC

VARIABLES
    slice,      \* ExpandSlice: the argument
    expanded,   \* ExpandSlice: what the call returned, [path, err], or NotCalled
    slicePc,    \* "call" before ExpandSlice ran, "done" after
    resources,  \* the translator's input: configs.Resources
    sdVer,      \* what systemdVersion(cm) returns
    props,      \* the translator's output: the property list
    propsPc,    \* "call", or the translator that ran
    Cgroups,    \* m.Cgroups, the manager's configuration
    Paths,      \* m.Paths, the controller-to-path map
    mu,         \* m.mu: "free" or the caller holding it
    host,       \* the host's answer for each controller's hierarchy
    ret,        \* the last call that returned, and the state it started from
    log,        \* the daemon requests and filesystem joins of that call
    thr,        \* concurrent callers: where each is in its call, and its locals
    lastSet,    \* the freezer state of the last controller Set that succeeded
    unitCall,   \* one call of the unit-lifecycle layer, and where it is
    versionOnce,\* versionOnce: "new", the caller running its function, "done"
    version,    \* the package variable version
    verCall,    \* the callers of systemdVersion: where each is, what it returned
    queries     \* how many times the daemon's Version property was asked for

sliceVars == <<slice, expanded, slicePc>>

propVars == <<resources, sdVer, props, propsPc>>

mgrVars == <<Cgroups, Paths, mu, host, ret, log>>

concVars == <<thr, lastSet>>

unitVars == <<unitCall>>

verVars == <<versionOnce, version, verCall, queries>>

vars == <<slice, expanded, slicePc, resources, sdVer, props, propsPc,
          Cgroups, Paths, mu, host, ret, log, thr, lastSet,
          unitCall, versionOnce, version, verCall, queries>>

-----------------------------------------------------------------------------
(* Go's strings package, as far as the code uses it.                       *)

HasSuffix(s, suf) ==
    /\ Len(s) >= Len(suf)
    /\ SubSeq(s, Len(s) - Len(suf) + 1, Len(s)) = suf

TrimSuffix(s, suf) ==
    IF HasSuffix(s, suf) THEN SubSeq(s, 1, Len(s) - Len(suf)) ELSE s

\* strings.Contains(s, c) for a one-character c
Contains(s, c) == \E i \in 1..Len(s) : SubSeq(s, i, i) = c

\* strings.Split(s, sep) for a one-character sep: always at least one
\* component, the empty string when s is empty.
RECURSIVE SplitFrom(_, _, _, _)
SplitFrom(s, sep, i, cur) ==
    IF i > Len(s) THEN <<cur>>
    ELSE IF SubSeq(s, i, i) = sep
         THEN <<cur>> \o SplitFrom(s, sep, i + 1, "")
         ELSE SplitFrom(s, sep, i + 1, cur \o SubSeq(s, i, i))

Split(s, sep) == SplitFrom(s, sep, 1, "")

-----------------------------------------------------------------------------
(* ExpandSlice                                                             *)

suffix == ".slice"

NoErr == ""

InvalidSliceName(s) == "invalid slice name: " \o s

NotCalled == [path |-> "", err |-> "not called"]

InitSliceIdle == slice = "" /\ expanded = NotCalled /\ slicePc = "idle"

\* The body of the loop over the components: path and prefix grow with each
\* component; an empty component ends the call with an error.
RECURSIVE ExpandLoopNoPrefix(_, _, _, _, _)
ExpandLoopNoPrefix(s, comps, i, path, prefix) ==
    IF i > Len(comps) THEN [path |-> path, err |-> NoErr]
    ELSE IF comps[i] = "" THEN [path |-> "", err |-> InvalidSliceName(s)]
    ELSE ExpandLoopNoPrefix(s, comps, i + 1,
                            path \o "/" \o comps[i] \o suffix, prefix)

RECURSIVE ExpandLoop(_, _, _, _, _)
ExpandLoop(s, comps, i, path, prefix) ==
    IF i > Len(comps) THEN [path |-> path, err |-> NoErr]
    ELSE IF comps[i] = "" THEN [path |-> "", err |-> InvalidSliceName(s)]
    ELSE ExpandLoop(s, comps, i + 1,
                    path \o "/" \o prefix \o comps[i] \o suffix,
                    prefix \o comps[i] \o "-")

ExpandSliceNoSeparatorCheck(s) ==
    IF Len(s) < Len(suffix) \/ ~HasSuffix(s, suffix)
    THEN [path |-> "", err |-> InvalidSliceName(s)]
    ELSE LET sliceName == TrimSuffix(s, suffix) IN
         IF sliceName = "-" THEN [path |-> "/", err |-> NoErr]
         ELSE ExpandLoop(s, Split(sliceName, "-"), 1, "", "")

ExpandSlice(s) ==
    IF Len(s) < Len(suffix) \/ ~HasSuffix(s, suffix)
    THEN [path |-> "", err |-> InvalidSliceName(s)]
    ELSE IF Contains(s, "/")
    THEN [path |-> "", err |-> InvalidSliceName(s)]
    ELSE LET sliceName == TrimSuffix(s, suffix) IN
         IF sliceName = "-" THEN [path |-> "/", err |-> NoErr]
         ELSE ExpandLoop(s, Split(sliceName, "-"), 1, "", "")

-----------------------------------------------------------------------------
(* 64-bit integers.  A uint64 (and an int64, in two's complement) is eight *)
(* bytes, least significant first, so that the arithmetic wraps at 2^64 as *)
(* Go's does.  The operators take the number of bytes of the result: 8 for *)
(* the code's arithmetic, more for the exact values the claims compare to. *)

U64(n) ==
    [i \in 1..8 |-> CASE i = 1 -> n % 256
                      [] i = 2 -> (n \div 256) % 256
                      [] i = 3 -> (n \div 65536) % 256
                      [] i = 4 -> (n \div 16777216) % 256
                      [] OTHER -> 0]

MaxUint64 == [i \in 1..8 |-> 255]

IsZero(x) == \A i \in 1..Len(x) : x[i] = 0

\* an int64 is positive: not zero, sign bit clear
Int64Positive(x) == ~IsZero(x) /\ x[8] < 128

ByteAt(x, i) == IF i <= Len(x) THEN x[i] ELSE 0

\* x * k in n bytes (wrapping), for 0 <= k < 2^22
RECURSIVE MulFrom(_, _, _, _, _)
MulFrom(x, k, i, carry, n) ==
    IF i > n THEN <<>>
    ELSE LET t == ByteAt(x, i) * k + carry IN
         <<t % 256>> \o MulFrom(x, k, i + 1, t \div 256, n)

Mul(x, k, n) == MulFrom(x, k, 1, 0, n)

\* x + k in n bytes (wrapping), for small k
RECURSIVE AddFrom(_, _, _, _)
AddFrom(x, carry, i, n) ==
    IF i > n THEN <<>>
    ELSE LET t == ByteAt(x, i) + carry IN
         <<t % 256>> \o AddFrom(x, t \div 256, i + 1, n)

Add(x, k, n) == AddFrom(x, k, 1, n)

\* x / d and x % d (unsigned), for 0 < d < 2^22: long division from the top byte
RECURSIVE DivFrom(_, _, _, _)
DivFrom(x, d, i, rem) ==
    IF i = 0 THEN <<>>
    ELSE LET cur == rem * 256 + x[i] IN
         DivFrom(x, d, i - 1, cur % d) \o <<cur \div d>>

Div(x, d) == DivFrom(x, d, Len(x), 0)

RECURSIVE ModFrom(_, _, _, _)
ModFrom(x, d, i, rem) ==
    IF i = 0 THEN rem ELSE ModFrom(x, d, i - 1, (rem * 256 + x[i]) % d)

Mod(x, d) == ModFrom(x, d, Len(x), 0)

\* x >= y, for x and y of the same number of bytes
RECURSIVE GeqFrom(_, _, _)
GeqFrom(x, y, i) ==
    IF i = 0 THEN TRUE
    ELSE IF x[i] # y[i] THEN x[i] > y[i]
    ELSE GeqFrom(x, y, i - 1)

Geq(x, y) == GeqFrom(x, y, Len(x))

-----------------------------------------------------------------------------
(* Resource property translation                                           *)

defCPUQuotaPeriod == 100000

newProp(name, units) == [Name |-> name, Value |-> units]

\* uint64(quota*1000000) / period, rounded up to the next multiple of 10000
\* when it is not one.  quota is an int64, period a uint64 below 2^22.
QuotaPerSecUSec(quota, period) ==
    LET cpuQuotaPerSecUSec == Div(Mul(quota, 1000000, 8), period) IN
    IF Mod(cpuQuotaPerSecUSec, 10000) # 0
    THEN Mul(Add(Div(cpuQuotaPerSecUSec, 10000), 1, 8), 10000, 8)
    ELSE cpuQuotaPerSecUSec

\* addCpuQuota(cm, properties, quota, period): the properties it appends
addCpuQuota(ver, quota, period) ==
    LET periodProp ==
            IF period # 0 /\ ver >= 242
            THEN <<newProp("CPUQuotaPeriodUSec", period)>> ELSE <<>>
        quotaProp ==
            IF ~IsZero(quota) \/ period # 0
            THEN <<newProp("CPUQuotaPerSecUSec",
                      IF Int64Positive(quota)
                      THEN QuotaPerSecUSec(quota,
                              IF period = 0 THEN defCPUQuotaPeriod ELSE period)
                      ELSE MaxUint64)>>
            ELSE <<>>
    IN  periodProp \o quotaProp

\* genV1ResourcesProperties(c): the property list and the error.  kmemErr is
\* what setKernelMemory(c) returns when it is called.
genV1ResourcesProperties(r, kmemErr) ==
    LET memory == IF r.Memory # 0
                  THEN <<newProp("MemoryLimit", r.Memory)>> ELSE <<>>
        shares == IF r.CpuShares # 0
                  THEN <<newProp("CPUShares", r.CpuShares)>> ELSE <<>>
        quota  == IF ~IsZero(r.CpuQuota) /\ r.CpuPeriod # 0
                  THEN <<newProp("CPUQuotaPerSecUSec",
                            IF Int64Positive(r.CpuQuota)
                            THEN QuotaPerSecUSec(r.CpuQuota, r.CpuPeriod)
                            ELSE MaxUint64)>>
                  ELSE <<>>
        blkio  == IF r.BlkioWeight # 0
                  THEN <<newProp("BlockIOWeight", r.BlkioWeight)>> ELSE <<>>
        pids   == IF r.PidsLimit > 0
                  THEN <<newProp("TasksAccounting", TRUE),
                         newProp("TasksMax", r.PidsLimit)>>
                  ELSE <<>>
    IN  IF r.KernelMemory # 0 /\ kmemErr # NoErr
        THEN [props |-> <<>>, err |-> kmemErr]
        ELSE [props |-> memory \o shares \o quota \o blkio \o pids,
              err |-> NoErr]

-----------------------------------------------------------------------------
(* Unit naming and controller paths                                        *)

\* getUnitName: a scope unless the name asks for a slice
getUnitName(c) ==
    IF ~HasSuffix(c.Name, ".slice")
    THEN c.ScopePrefix \o "-" \o c.Name \o ".scope"
    ELSE c.Name

\* the names of legacySubsystems, in order
legacySubsystems ==
    <<"cpuset", "devices", "memory", "cpu", "cpuacct", "pids", "blkio",
      "hugetlb", "perf_event", "freezer", "net_prio", "net_cls", "name=systemd">>

SubsystemNames == {legacySubsystems[i] : i \in 1..Len(legacySubsystems)}

errSubsystemDoesNotExist == "cgroup: subsystem does not exist"

\* subsystemSet.Get: the error
SubsystemGetErr(name) ==
    IF \E i \in 1..Len(legacySubsystems) : legacySubsystems[i] = name
    THEN NoErr ELSE errSubsystemDoesNotExist

\* cgroups.FindCgroupMountpoint / GetInitCgroup: what the host answers for a
\* controller is h[name]: "ok", "notfound" (no such hierarchy is mounted) or
\* "err" (any other failure).
NotFoundErr(name) == "mountpoint for " \o name \o " not found"

HostErr(name) == "cannot read the mounts of " \o name

IsNotFound(err) == HasSuffix(err, " not found")

MountPoint(name) == "/sys/fs/cgroup/" \o name

\* filepath.Join(mountpoint, initPath, slice, unit), for an init process in
\* the root cgroup: the expanded slice is "/" or starts with "/"
JoinPath(mountpoint, expandedSlice, unit) ==
    IF expandedSlice = "/" THEN mountpoint \o "/" \o unit
    ELSE mountpoint \o expandedSlice \o "/" \o unit

\* the slice the unit is placed under
SliceOf(c) == IF c.Parent # "" THEN c.Parent ELSE "system.slice"

\* getSubsystemPath(c, subsystem): [path, err], given sl, the result of
\* ExpandSlice on the slice of c.  ExpandSlice is a pure function of
\* c.Parent, which no call changes, so a handler that resolves several
\* controllers evaluates it once and passes the result on.
subsystemPath(c, subsystem, h, sl) ==
    IF h[subsystem] = "notfound" THEN [path |-> "", err |-> NotFoundErr(subsystem)]
    ELSE IF h[subsystem] = "err" THEN [path |-> "", err |-> HostErr(subsystem)]
    ELSE IF sl.err # NoErr THEN [path |-> "", err |-> sl.err]
    ELSE [path |-> JoinPath(MountPoint(subsystem), sl.path, getUnitName(c)),
          err |-> NoErr]

getSubsystemPath(c, subsystem, h) ==
    subsystemPath(c, subsystem, h, ExpandSlice(SliceOf(c)))

-----------------------------------------------------------------------------
(* Unit lifecycle.  reqErr is what cm.retryOnDisconnect returns for the    *)
(* request; status is what arrives on statusChan, "timeout" when nothing   *)
(* arrives before the timer fires.  Each returns the error and the calls   *)
(* made to the daemon.                                                     *)

UnitExistsErr == "org.freedesktop.systemd1.UnitExists"

DbusErr == "dbus: request failed"

\* what getDbusConnection returns when there is no connection to be had
ConnErr == "dbus: cannot connect"

isUnitExistsNever(err) == FALSE

isUnitExists(err) == err = UnitExistsErr

\* resetFailedUnit(cm, name): the request, and the warning when it fails
ResetErr == "dbus: reset-failed rejected"

resetFailedUnit(name, resetErr) ==
    <<[call |-> "ResetFailedUnit", unit |-> name, arg |-> <<>>]>>
    \o (IF resetErr # NoErr
        THEN <<[call |-> "Warn", unit |-> name, arg |-> resetErr]>> ELSE <<>>)

startUnitNoResetOnTimeout(unitName, properties, reqErr, status, resetErr) ==
    LET req == [call |-> "StartTransientUnit", unit |-> unitName, arg |-> properties]
    IN  IF reqErr = NoErr
        THEN IF status = "timeout"
             THEN [err |-> "Timeout waiting for systemd to create " \o unitName,
                   log |-> <<req>>]
             ELSE IF status # "done"
             THEN [err |-> "error creating systemd unit " \o unitName
                              \o ": got " \o status,
                   log |-> <<req>> \o resetFailedUnit(unitName, resetErr)]
             ELSE [err |-> NoErr, log |-> <<req>>]
        ELSE IF ~isUnitExists(reqErr)
        THEN [err |-> reqErr, log |-> <<req>>]
        ELSE [err |-> NoErr, log |-> <<req>>]

startUnitReturnsUnitExists(unitName, properties, reqErr, status, resetErr) ==
    LET req == [call |-> "StartTransientUnit", unit |-> unitName, arg |-> properties]
    IN  IF reqErr = NoErr
        THEN IF status = "timeout"
             THEN [err |-> "Timeout waiting for systemd to create " \o unitName,
                   log |-> <<req>> \o resetFailedUnit(unitName, resetErr)]
             ELSE IF status # "done"
             THEN [err |-> "error creating systemd unit " \o unitName
                              \o ": got " \o status,
                   log |-> <<req>> \o resetFailedUnit(unitName, resetErr)]
             ELSE [err |-> NoErr, log |-> <<req>>]
        ELSE [err |-> reqErr, log |-> <<req>>]

startUnit(unitName, properties, reqErr, status, resetErr) ==
    LET req == [call |-> "StartTransientUnit", unit |-> unitName, arg |-> properties]
    IN  IF reqErr = NoErr
        THEN IF status = "timeout"
             THEN [err |-> "Timeout waiting for systemd to create " \o unitName,
                   log |-> <<req>> \o resetFailedUnit(unitName, resetErr)]
             ELSE IF status # "done"
             THEN [err |-> "error creating systemd unit " \o unitName
                              \o ": got " \o status,
                   log |-> <<req>> \o resetFailedUnit(unitName, resetErr)]
             ELSE [err |-> NoErr, log |-> <<req>>]
        ELSE IF ~isUnitExists(reqErr)
        THEN [err |-> reqErr, log |-> <<req>>]
        ELSE [err |-> NoErr, log |-> <<req>>]

stopUnitFailsOnStatus(unitName, reqErr, status) ==
    LET req == [call |-> "StopUnit", unit |-> unitName, arg |-> <<>>] IN
    IF reqErr = NoErr /\ status # "done"
    THEN [err |-> "Timed out while waiting for systemd to remove " \o unitName,
          log |-> <<req>>]
    ELSE [err |-> NoErr, log |-> <<req>>]

stopUnitReturnsRequestError(unitName, reqErr, status) ==
    LET req == [call |-> "StopUnit", unit |-> unitName, arg |-> <<>>] IN
    IF reqErr # NoErr THEN [err |-> reqErr, log |-> <<req>>]
    ELSE IF status = "timeout"
    THEN [err |-> "Timed out while waiting for systemd to remove " \o unitName,
          log |-> <<req>>]
    ELSE [err |-> NoErr, log |-> <<req>>]

stopUnit(unitName, reqErr, status) ==
    LET req == [call |-> "StopUnit", unit |-> unitName, arg |-> <<>>] IN
    IF reqErr = NoErr /\ status = "timeout"
    THEN [err |-> "Timed out while waiting for systemd to remove " \o unitName,
          log |-> <<req>>]
    ELSE [err |-> NoErr, log |-> <<req>>]

-----------------------------------------------------------------------------
(* Direct filesystem joins.  ioFail names the controller whose directory   *)
(* cannot be created or written (MkdirAll, WriteCgroupProc, ApplyDir       *)
(* fail), "none" when every one can.                                       *)

IoErr(name) == "cannot write the cgroup of " \o name

FsEvent(what, name, path) == [call |-> what, unit |-> name, arg |-> path]

\* join(c, subsystem, pid): [err, log]
join(c, subsystem, pid, h, ioFail, sl) ==
    LET p == subsystemPath(c, subsystem, h, sl) IN
    IF p.err # NoErr THEN [err |-> p.err, log |-> <<>>]
    ELSE IF ioFail = subsystem THEN [err |-> IoErr(subsystem), log |-> <<>>]
    ELSE [err |-> NoErr, log |-> <<FsEvent("join", subsystem, p.path)>>]

\* setKernelMemory(c): [err, log].  kmem says what the filesystem answers:
\* "mkdir" MkdirAll fails, "read" the tasks file cannot be read, "tasks" the
\* group has members, "enable" EnableKernelMemoryAccounting fails, "ok"
\* none of these.  A memory hierarchy that is not found leaves path empty,
\* and MkdirAll of the empty path fails.
KmemInputs == {"ok", "mkdir", "read", "tasks", "enable"}

KmemIoErr(kmem) == "setKernelMemory: " \o kmem \o " failed"

setKernelMemoryIgnoresTasks(c, h, sl, kmem) ==
    LET p == subsystemPath(c, "memory", h, sl)
        mkdir == FsEvent("MkdirAll", "memory", p.path)
        enable == FsEvent("EnableKernelMemoryAccounting", "memory", p.path)
    IN  IF p.err # NoErr /\ ~IsNotFound(p.err) THEN [err |-> p.err, log |-> <<>>]
        ELSE IF p.path = "" \/ kmem = "mkdir"
        THEN [err |-> KmemIoErr("mkdir"), log |-> <<>>]
        ELSE IF kmem = "read" THEN [err |-> KmemIoErr("read"), log |-> <<mkdir>>]
        ELSE IF kmem = "enable"
        THEN [err |-> KmemIoErr("enable"), log |-> <<mkdir>>]
        ELSE [err |-> NoErr, log |-> <<mkdir, enable>>]

setKernelMemory(c, h, sl, kmem) ==
    LET p == subsystemPath(c, "memory", h, sl)
        mkdir == FsEvent("MkdirAll", "memory", p.path)
        enable == FsEvent("EnableKernelMemoryAccounting", "memory", p.path)
    IN  IF p.err # NoErr /\ ~IsNotFound(p.err) THEN [err |-> p.err, log |-> <<>>]
        ELSE IF p.path = "" \/ kmem = "mkdir"
        THEN [err |-> KmemIoErr("mkdir"), log |-> <<>>]
        ELSE IF kmem = "read" THEN [err |-> KmemIoErr("read"), log |-> <<mkdir>>]
        ELSE IF kmem = "tasks" THEN [err |-> NoErr, log |-> <<mkdir>>]
        ELSE IF kmem = "enable"
        THEN [err |-> KmemIoErr("enable"), log |-> <<mkdir>>]
        ELSE [err |-> NoErr, log |-> <<mkdir, enable>>]

\* the kernel-memory step of genV1ResourcesProperties
kernelMemoryStep(c, h, sl, kmem) ==
    IF c.Resources.KernelMemory # 0 THEN setKernelMemory(c, h, sl, kmem)
    ELSE [err |-> NoErr, log |-> <<>>]

RECURSIVE joinCgroupsFromDevicesOptional(_, _, _, _, _, _)
joinCgroupsFromDevicesOptional(c, pid, h, ioFail, sl, i) ==
    IF i > Len(legacySubsystems) THEN [err |-> NoErr, log |-> <<>>]
    ELSE
    LET name == legacySubsystems[i]
        rest == joinCgroupsFromDevicesOptional(c, pid, h, ioFail, sl, i + 1)
    IN  CASE name = "name=systemd" -> rest
          [] name = "cpuset" ->
                LET p == subsystemPath(c, name, h, sl) IN
                IF p.err # NoErr /\ ~IsNotFound(p.err)
                THEN [err |-> p.err, log |-> <<>>]
                ELSE IF ioFail = name
                THEN [err |-> IoErr(name), log |-> <<>>]
                ELSE [err |-> rest.err,
                      log |-> <<FsEvent("ApplyDir", name, p.path)>> \o rest.log]
          [] OTHER ->
                LET j == join(c, name, pid, h, ioFail, sl) IN
                IF j.err # NoErr /\ ~IsNotFound(j.err)
                THEN [err |-> j.err, log |-> <<>>]
                ELSE [err |-> rest.err, log |-> j.log \o rest.log]

\* joinCgroups(c, pid), from controller i on: [err, log]
RECURSIVE joinCgroupsFrom(_, _, _, _, _, _)
joinCgroupsFrom(c, pid, h, ioFail, sl, i) ==
    IF i > Len(legacySubsystems) THEN [err |-> NoErr, log |-> <<>>]
    ELSE
    LET name == legacySubsystems[i]
        rest == joinCgroupsFrom(c, pid, h, ioFail, sl, i + 1)
    IN  CASE name = "name=systemd" -> rest
          [] name = "cpuset" ->
                LET p == subsystemPath(c, name, h, sl) IN
                IF p.err # NoErr /\ ~IsNotFound(p.err)
                THEN [err |-> p.err, log |-> <<>>]
                ELSE IF ioFail = name
                THEN [err |-> IoErr(name), log |-> <<>>]
                ELSE [err |-> rest.err,
                      log |-> <<FsEvent("ApplyDir", name, p.path)>> \o rest.log]
          [] OTHER ->
                LET j == join(c, name, pid, h, ioFail, sl) IN
                IF j.err # NoErr /\ (name = "devices" \/ ~IsNotFound(j.err))
                THEN [err |-> j.err, log |-> <<>>]
                ELSE [err |-> rest.err, log |-> j.log \o rest.log]

joinCgroups(c, pid, h, ioFail) ==
    joinCgroupsFrom(c, pid, h, ioFail, ExpandSlice(SliceOf(c)), 1)

-----------------------------------------------------------------------------
(* The legacy manager's operations, as functions of the state they start   *)
(* from and of what the daemon, the host and the filesystem answer.        *)

EmptyMap == [n \in {} |-> ""]

\* the daemon-mode property list of Apply, before the resource properties
unitProperties(c, unitName, pid) ==
    LET sl == SliceOf(c) IN
    <<newProp("Description", "libcontainer container " \o c.Name)>>
    \o (IF HasSuffix(unitName, ".slice")
        THEN <<newProp("Wants", sl)>> ELSE <<newProp("Slice", sl)>>)
    \o (IF pid # -1 THEN <<newProp("PIDs", <<pid>>)>> ELSE <<>>)
    \o (IF ~HasSuffix(unitName, ".slice")
        THEN <<newProp("Delegate", TRUE)>> ELSE <<>>)
    \o <<newProp("MemoryAccounting", TRUE), newProp("CPUAccounting", TRUE),
         newProp("BlockIOAccounting", TRUE)>>
    \o <<newProp("DefaultDependencies", FALSE)>>

ResolvedNamesAll(c, names, h) == names

\* the paths Apply records: every name of `names` whose hierarchy resolves
ResolvedNames(c, names, h) ==
    {n \in names : getSubsystemPath(c, n, h).err = NoErr}

\* the names whose resolution fails with something else than not-found
FailingNames(c, names, h) ==
    {n \in names : LET e == getSubsystemPath(c, n, h).err IN
                      e # NoErr /\ ~IsNotFound(e)}

\* Apply with explicit paths: first is the failing entry the iteration over
\* c.Paths meets first, when there is one; enterErr is what EnterPid returns.
\* m.Paths is assigned before EnterPid is called.
ApplyExplicit(c, pid, h, first, enterErr, old) ==
    LET names == DOMAIN c.Paths.m
        paths == [n \in ResolvedNames(c, names, h) |-> c.Paths.m[n]]
    IN  IF FailingNames(c, names, h) # {}
        THEN [Paths |-> old, err |-> getSubsystemPath(c, first, h).err, log |-> <<>>, wrote |-> FALSE]
        ELSE [Paths |-> paths, err |-> enterErr,
              log |-> <<[call |-> "EnterPid", unit |-> "", arg |-> paths]>>,
              wrote |-> TRUE]

\* the loop of Apply that records the controllers' paths, from controller
\* i on with `paths` recorded so far: [paths, err]
RECURSIVE recordPaths(_, _, _, _, _)
recordPaths(c, h, sl, i, paths) ==
    IF i > Len(legacySubsystems) THEN [paths |-> paths, err |-> NoErr]
    ELSE LET name == legacySubsystems[i]
             p == subsystemPath(c, name, h, sl)
         IN  IF p.err # NoErr
             THEN IF IsNotFound(p.err) THEN recordPaths(c, h, sl, i + 1, paths)
                  ELSE [paths |-> paths, err |-> p.err]
             ELSE recordPaths(c, h, sl, i + 1,
                      [n \in DOMAIN paths \cup {name} |->
                          IF n = name THEN p.path ELSE paths[n]])

\* Apply through the daemon
ApplyDaemon(c, pid, h, env, old) ==
    LET unitName == getUnitName(c)
        sl == ExpandSlice(SliceOf(c))
        km == kernelMemoryStep(c, h, sl, env.kmem)
        gen == genV1ResourcesProperties(c.Resources, km.err)
        properties == unitProperties(c, unitName, pid) \o gen.props \o c.SystemdProps
        started == startUnit(unitName, properties, env.reqErr, env.status, env.resetErr)
        joined == joinCgroupsFrom(c, pid, h, env.ioFail, sl, 1)
        recorded == recordPaths(c, h, sl, 1, EmptyMap)
    IN  IF gen.err # NoErr
        THEN [Paths |-> old, err |-> gen.err, log |-> km.log, wrote |-> FALSE]
        ELSE IF started.err # NoErr
        THEN [Paths |-> old, err |-> started.err, log |-> km.log \o started.log,
              wrote |-> FALSE]
        ELSE IF joined.err # NoErr
        THEN [Paths |-> old, err |-> joined.err,
              log |-> km.log \o started.log \o joined.log, wrote |-> FALSE]
        ELSE IF recorded.err # NoErr
        THEN [Paths |-> old, err |-> recorded.err,
              log |-> km.log \o started.log \o joined.log, wrote |-> FALSE]
        ELSE [Paths |-> recorded.paths, err |-> NoErr,
              log |-> km.log \o started.log \o joined.log, wrote |-> TRUE]

\* Apply(pid): the new m.Paths, the error, the external calls, whether
\* m.Paths was assigned
Apply(c, pid, h, env, old) ==
    IF ~c.Paths.isNil
    THEN ApplyExplicit(c, pid, h, env.first, env.enterErr, old)
    ELSE ApplyDaemon(c, pid, h, env, old)

\* Set(container): [err, log].  c is m.Cgroups, cont is container.Cgroups,
\* paths is m.Paths; senv says what the collaborators answer: kmem as for
\* setKernelMemory, connErr what getDbusConnection returns, reqErr what
\* SetUnitProperties returns, setFail the controller whose Set fails,
\* sharesErr what CheckCpushares returns.
RECURSIVE setSubsystemsFromKeepsGoing(_, _, _, _, _)
setSubsystemsFromKeepsGoing(cont, h, sl, setFail, i) ==
    IF i > Len(legacySubsystems) THEN [err |-> NoErr, log |-> <<>>]
    ELSE LET name == legacySubsystems[i]
             p == subsystemPath(cont, name, h, sl)
             rest == setSubsystemsFromKeepsGoing(cont, h, sl, setFail, i + 1)
         IN  IF p.err # NoErr /\ ~IsNotFound(p.err)
             THEN [err |-> p.err, log |-> <<>>]
             ELSE IF setFail = name
             THEN [err |-> IoErr(name), log |-> rest.log]
             ELSE [err |-> rest.err,
                   log |-> <<FsEvent("Set", name, p.path)>> \o rest.log]

RECURSIVE setSubsystemsFrom(_, _, _, _, _)
setSubsystemsFrom(cont, h, sl, setFail, i) ==
    IF i > Len(legacySubsystems) THEN [err |-> NoErr, log |-> <<>>]
    ELSE LET name == legacySubsystems[i]
             p == subsystemPath(cont, name, h, sl)
             rest == setSubsystemsFrom(cont, h, sl, setFail, i + 1)
         IN  IF p.err # NoErr /\ ~IsNotFound(p.err)
             THEN [err |-> p.err, log |-> <<>>]
             ELSE IF setFail = name
             THEN [err |-> IoErr(name), log |-> <<>>]
             ELSE [err |-> rest.err,
                   log |-> <<FsEvent("Set", name, p.path)>> \o rest.log]

SharesErr == "cpu.shares was not applied"

Set(c, cont, h, senv, paths) ==
    IF ~c.Paths.isNil THEN [err |-> NoErr, log |-> <<>>]
    ELSE
    LET sl == ExpandSlice(SliceOf(cont))
        km == kernelMemoryStep(cont, h, sl, senv.kmem)
        gen == genV1ResourcesProperties(cont.Resources, km.err)
        req == [call |-> "SetUnitProperties", unit |-> getUnitName(cont),
                arg |-> gen.props]
        set == setSubsystemsFrom(cont, h, sl, senv.setFail, 1)
        checked == "cpu" \in DOMAIN paths /\ paths["cpu"] # ""
        check == IF checked
                 THEN <<FsEvent("CheckCpushares", "cpu", paths["cpu"])>> ELSE <<>>
    IN  IF gen.err # NoErr THEN [err |-> gen.err, log |-> km.log]
        ELSE IF senv.connErr # NoErr THEN [err |-> senv.connErr, log |-> km.log]
        ELSE IF senv.reqErr # NoErr
        THEN [err |-> senv.reqErr, log |-> km.log \o <<req>>]
        ELSE IF set.err # NoErr
        THEN [err |-> set.err, log |-> km.log \o <<req>> \o set.log]
        ELSE IF checked /\ senv.sharesErr # NoErr
        THEN [err |-> senv.sharesErr, log |-> km.log \o <<req>> \o set.log \o check]
        ELSE [err |-> NoErr, log |-> km.log \o <<req>> \o set.log \o check]

\* GetPids(): [pids path, err]
GetPids(c, h) == getSubsystemPath(c, "devices", h)

\* Destroy()
DestroyKeepsMap(c, reqErr, status, old) ==
    IF ~c.Paths.isNil THEN [Paths |-> old, err |-> NoErr, log |-> <<>>]
    ELSE LET stopped == stopUnit(getUnitName(c), reqErr, status) IN
         [Paths |-> old, err |-> stopped.err, log |-> stopped.log]

Destroy(c, reqErr, status, old) ==
    IF ~c.Paths.isNil THEN [Paths |-> old, err |-> NoErr, log |-> <<>>]
    ELSE LET stopped == stopUnit(getUnitName(c), reqErr, status) IN
         IF stopped.err # NoErr
         THEN [Paths |-> old, err |-> stopped.err, log |-> stopped.log]
         ELSE [Paths |-> EmptyMap, err |-> NoErr, log |-> stopped.log]

\* GetStats(): gone are the recorded paths that no longer exist, statsFail
\* the controller whose GetStats fails ("none": none).  [stats, err], stats
\* being the controllers whose statistics were accumulated.
StatsErr(name) == "cannot read the statistics of " \o name

GetStats(paths, gone, statsFail) ==
    LET read == {n \in DOMAIN paths :
                    SubsystemGetErr(n) = NoErr /\ n \notin gone}
    IN  IF statsFail \in read
        THEN [stats |-> {}, err |-> StatsErr(statsFail)]
        ELSE [stats |-> read, err |-> NoErr]

\* Freeze(state): setErr is what the freezer controller's Set returns.
\* [Freezer, err]: the configuration's freezer field afterwards, the error.
FreezeNoRollback(c, state, h, setErr) ==
    LET p == getSubsystemPath(c, "freezer", h) IN
    IF p.err # NoErr THEN [Freezer |-> c.Resources.Freezer, err |-> p.err]
    ELSE IF SubsystemGetErr("freezer") # NoErr
    THEN [Freezer |-> state, err |-> SubsystemGetErr("freezer")]
    ELSE [Freezer |-> state, err |-> setErr]

Freeze(c, state, h, setErr) ==
    LET p == getSubsystemPath(c, "freezer", h)
        prevState == c.Resources.Freezer
    IN  IF p.err # NoErr THEN [Freezer |-> prevState, err |-> p.err]
        ELSE IF SubsystemGetErr("freezer") # NoErr
        THEN [Freezer |-> state, err |-> SubsystemGetErr("freezer")]
        ELSE IF setErr # NoErr THEN [Freezer |-> prevState, err |-> setErr]
        ELSE [Freezer |-> state, err |-> NoErr]

-----------------------------------------------------------------------------
(* The state before anything is called                                     *)

Undefined == ""

Frozen == "FROZEN"

Thawed == "THAWED"

FreezerStates == {Undefined, Frozen, Thawed}

ManagerResources(kmem) ==
    [Memory |-> 1024, CpuShares |-> 0, CpuQuota |-> U64(25000),
     CpuPeriod |-> 100000, BlkioWeight |-> 0, PidsLimit |-> 10,
     KernelMemory |-> kmem, Freezer |-> Undefined]

NilPaths == [isNil |-> TRUE, m |-> EmptyMap]

ExplicitPaths(m) == [isNil |-> FALSE, m |-> m]

Config(name, parent, paths, kmem) ==
    [Name |-> name, Parent |-> parent, ScopePrefix |-> "runc", Paths |-> paths,
     Resources |-> ManagerResources(kmem), SystemdProps |-> <<>>]

AllOk == [n \in SubsystemNames \cup {"foo"} |-> IF n = "foo" THEN "notfound" ELSE "ok"]

NoCall ==
    [op |-> "none", arg |-> "", err |-> NoErr, out |-> "",
     prePaths |-> EmptyMap, preFreezer |-> Undefined]

KmemErr == "setKernelMemory failed"

NoResources ==
    [Memory |-> 0, CpuShares |-> 0, CpuQuota |-> U64(0), CpuPeriod |-> 0,
     BlkioWeight |-> 0, PidsLimit |-> 0, KernelMemory |-> 0]

InitPropsIdle ==
    /\ resources = NoResources
    /\ sdVer = 0
    /\ props = [props |-> <<>>, err |-> NoErr]
    /\ propsPc = "idle"

Threads == {"t1", "t2"}

\* a caller that is in no call
Idle ==
    [pc |-> "idle", acc |-> "none", pending |-> EmptyMap, prev |-> Undefined,
     state |-> Undefined, err |-> NoErr]

InitConcIdle ==
    /\ thr = [t \in Threads |-> Idle]
    /\ lastSet = Undefined

\* no call of the unit-lifecycle layer
NoUnitCall ==
    [pc |-> "idle", op |-> "", unit |-> "", outcomes |-> <<>>, conns |-> 0,
     reqErr |-> NoErr, status |-> "", resetErr |-> NoErr, err |-> NoErr,
     log |-> <<>>]

InitUnitIdle == unitCall = NoUnitCall

VersionCallers == {"v1", "v2", "v3"}

\* the package variables as the program starts, and nobody calling
InitVerIdle ==
    /\ versionOnce = "new"
    /\ version = 0
    /\ verCall = [t \in VersionCallers |->
                    [pc |-> "idle", ans |-> [str |-> "", err |-> NoErr], got |-> {},
                     use |-> [fn |-> "", quota |-> <<>>, period |-> 0,
                              cpus |-> "", mems |-> ""],
                     out |-> [use |-> [fn |-> "", quota |-> <<>>, period |-> 0,
                                       cpus |-> "", mems |-> ""],
                              props |-> <<>>, err |-> NoErr]]]
    /\ queries = 0

InitMgrIdle ==
    /\ InitConcIdle
    /\ Cgroups = Config("", "", NilPaths, 0)
    /\ Paths = EmptyMap
    /\ mu = "free"
    /\ host = AllOk
    /\ ret = NoCall
    /\ log = <<>>

-----------------------------------------------------------------------------
(* The inputs the translation is checked on                                *)

\* int64 quotas: 0, small positive ones, negative ones, the largest quota
\* whose product with 1000000 fits in 64 bits (18446744073709), the next
\* one, 2^45, 211750175222111943 and the largest int64.
QuotaInputs ==
    {U64(0), U64(1), U64(3), U64(25000), U64(33333), U64(100000), U64(150000),
     MaxUint64,                                     \* -1
     <<251, 255, 255, 255, 255, 255, 255, 255>>,    \* -5
     <<237, 181, 160, 247, 198, 16, 0, 0>>,         \* 18446744073709
     <<238, 181, 160, 247, 198, 16, 0, 0>>,         \* 18446744073710
     <<0, 0, 0, 0, 0, 32, 0, 0>>,                   \* 2^45
     <<199, 158, 61, 151, 169, 73, 240, 2>>,        \* 211750175222111943
     <<255, 255, 255, 255, 255, 255, 255, 127>>}    \* 2^63 - 1

PeriodInputs == {0, 1, 1000, 30000, 100000, 1000000}

VersionInputs == {241, 242, 244}

ResourceInputs ==
    [Memory : {0, 1024}, CpuShares : {0, 512},
     CpuQuota : QuotaInputs, CpuPeriod : PeriodInputs,
     BlkioWeight : {0}, PidsLimit : {-1, 0, 10}, KernelMemory : {0, 4096}]

InitProps ==
    /\ InitMgrIdle
    /\ InitUnitIdle
    /\ InitVerIdle
    /\ resources \in ResourceInputs
    /\ sdVer \in VersionInputs
    /\ props = [props |-> <<>>, err |-> NoErr]
    /\ propsPc = "call"
    /\ InitSliceIdle

CallAddCpuQuota ==
    /\ propsPc = "call"
    /\ props' = [props |-> addCpuQuota(sdVer, resources.CpuQuota, resources.CpuPeriod),
                 err |-> NoErr]
    /\ propsPc' = "addCpuQuota"
    /\ UNCHANGED <<resources, sdVer, sliceVars, mgrVars, concVars, unitVars, verVars>>

CallGenV1ResourcesProperties ==
    /\ propsPc = "call"
    /\ \E kmemErr \in {NoErr, KmemErr} :
          props' = genV1ResourcesProperties(resources, kmemErr)
    /\ propsPc' = "genV1ResourcesProperties"
    /\ UNCHANGED <<resources, sdVer, sliceVars, mgrVars, concVars, unitVars, verVars>>

NextProps == CallAddCpuQuota \/ CallGenV1ResourcesProperties

SpecProps == InitProps /\ [][NextProps]_vars

-----------------------------------------------------------------------------
(* The inputs ExpandSlice is checked on: every string of at most           *)
(* MaxNameLen characters over NameAlphabet, followed by one of NameTails.  *)

MaxNameLen == 5

NameAlphabet == {"a", "b", "-", "/"}

NameTails == {".slice", "", ".scope", "slice"}

RECURSIVE StringsUpTo(_)
StringsUpTo(n) ==
    IF n = 0 THEN {""}
    ELSE LET shorter == StringsUpTo(n - 1) IN
         shorter \cup {s \o c : s \in shorter, c \in NameAlphabet}

SliceInputs == {b \o t : b \in StringsUpTo(MaxNameLen), t \in NameTails}

InitSlice ==
    /\ InitPropsIdle
    /\ InitMgrIdle
    /\ InitUnitIdle
    /\ InitVerIdle
    /\ slice \in SliceInputs
    /\ expanded = NotCalled
    /\ slicePc = "call"

CallExpandSlice ==
    /\ slicePc = "call"
    /\ expanded' = ExpandSlice(slice)
    /\ slicePc' = "done"
    /\ UNCHANGED <<slice, propVars, mgrVars, concVars, unitVars, verVars>>

NextSlice == CallExpandSlice

SpecSlice == InitSlice /\ [][NextSlice]_vars

-----------------------------------------------------------------------------
(* The manager, one caller at a time: every action is one whole call.      *)

\* a scope and a slice under the default, a nested and the root parent; a
\* parent that is no valid slice; explicit paths, among them an unknown
\* controller, and an empty (non-nil) explicit map
ConfigInputs ==
    {Config("g", "", NilPaths, 0),
     Config("g.slice", "test-a.slice", NilPaths, 0),
     Config("g", "-.slice", NilPaths, 4096),
     Config("g", "bad--p.slice", NilPaths, 0),
     Config("g", "", ExplicitPaths([n \in {"cpu", "memory", "foo"} |-> "/x/" \o n]), 0),
     Config("g", "", ExplicitPaths(EmptyMap), 0)}

\* every hierarchy is mounted, or one of these is missing or unreadable
FaultyNames == {"cpuset", "devices", "memory", "freezer", "name=systemd"}

HostInputs ==
    {AllOk} \cup {[AllOk EXCEPT ![n] = f] : n \in FaultyNames, f \in {"notfound", "err"}}

\* the hosts a configuration is tried on: the faulty ones for the plain
\* scope, the scope with a kernel-memory limit and the explicit paths
HostsFor(c) ==
    IF c.Name = "g" /\ c.Parent \in {"", "-.slice"} /\ (c.Paths.isNil \/ c.Paths.m # EmptyMap)
    THEN HostInputs ELSE {AllOk}

Pids == {-1, 7}

EnterErr == "cannot attach the pid"

SetErr == "cannot write freezer.state"

\* what arrives on statusChan: a job result of the daemon, or nothing
\* before the timer fires ("timeout")
Statuses == {"done", "failed", "canceled", "timeout"}

\* the controller whose directory cannot be written: the first of the
\* registry, the required one, an ordinary one, the last one joined, none
IoFailInputs == {"none", "cpuset", "devices", "memory", "net_cls"}

\* the recorded controllers whose path may be gone, or whose GetStats may fail
StatsInputs == {"cpu", "memory", "name=systemd"}

\* what the daemon, the filesystem and the iteration order can answer to
\* one Apply call
ApplyEnvs(c, h) ==
    IF ~c.Paths.isNil
    THEN LET failing == FailingNames(c, DOMAIN c.Paths.m, h) IN
         [kmem : {"ok"}, reqErr : {NoErr}, status : {"done"}, ioFail : {"none"},
          first : IF failing = {} THEN {"none"} ELSE failing,
          enterErr : {NoErr, EnterErr}, resetErr : {NoErr}]
    ELSE [kmem : {"ok"}, reqErr : {NoErr}, status : {"done"},
          ioFail : IoFailInputs, first : {"none"}, enterErr : {NoErr}, resetErr : {NoErr}]
         \cup
         [kmem : {"ok"}, reqErr : {NoErr}, status : Statuses \ {"done"},
          ioFail : {"none"}, first : {"none"}, enterErr : {NoErr},
          resetErr : {NoErr, ResetErr}]
         \cup
         [kmem : IF c.Resources.KernelMemory # 0 THEN KmemInputs \ {"ok"} ELSE {},
          reqErr : {NoErr}, status : {"done"}, ioFail : {"none"},
          first : {"none"}, enterErr : {NoErr}, resetErr : {NoErr}]
         \cup
         [kmem : {"ok"}, reqErr : {UnitExistsErr, DbusErr}, status : {"done"},
          ioFail : {"none", "memory"}, first : {"none"}, enterErr : {NoErr}, resetErr : {NoErr}]

\* everything answers well
OkEnv ==
    [kmem |-> "ok", reqErr |-> NoErr, status |-> "done", ioFail |-> "none",
     first |-> "none", enterErr |-> NoErr, resetErr |-> NoErr]

Returned(op, arg, err, out) ==
    [op |-> op, arg |-> arg, err |-> err, out |-> out,
     prePaths |-> Paths, preFreezer |-> Cgroups.Resources.Freezer]

Init ==
    /\ InitSliceIdle
    /\ InitPropsIdle
    /\ InitConcIdle
    /\ InitUnitIdle
    /\ InitVerIdle
    /\ Cgroups \in ConfigInputs
    /\ host \in HostsFor(Cgroups)
    /\ Paths = EmptyMap
    /\ mu = "free"
    /\ ret = NoCall
    /\ log = <<>>

DoApply ==
    \E pid \in Pids :
    \E env \in (IF pid = -1
                THEN {e \in ApplyEnvs(Cgroups, host) : [e EXCEPT !.first = "none"] = OkEnv}
                ELSE ApplyEnvs(Cgroups, host)) :
        LET r == Apply(Cgroups, pid, host, env, Paths) IN
        /\ Paths' = r.Paths
        /\ ret' = Returned("Apply", [pid |-> pid, env |-> env], r.err, "")
        /\ log' = r.log
        /\ UNCHANGED <<Cgroups, mu, host, sliceVars, propVars, concVars, unitVars, verVars>>

DoDestroy ==
    /\ mu = "free"
    /\ \E reqErr \in {NoErr, DbusErr} :
       \E status \in (IF reqErr = NoErr THEN Statuses ELSE {"done"}) :
        LET r == Destroy(Cgroups, reqErr, status, Paths) IN
        /\ Paths' = r.Paths
        /\ ret' = Returned("Destroy", [reqErr |-> reqErr, status |-> status], r.err, "")
        /\ log' = r.log
        /\ UNCHANGED <<Cgroups, mu, host, sliceVars, propVars, concVars, unitVars, verVars>>

DoGetPaths ==
    /\ mu = "free"
    /\ ret' = Returned("GetPaths", "", NoErr, Paths)
    /\ log' = <<>>
    /\ UNCHANGED <<Cgroups, Paths, mu, host, sliceVars, propVars, concVars, unitVars, verVars>>

DoGetStats ==
    /\ mu = "free"
    /\ \E gone \in {{}} \cup {{n} : n \in DOMAIN Paths \cap StatsInputs} :
       \E statsFail \in {"none"} \cup (DOMAIN Paths \cap StatsInputs) :
        LET r == GetStats(Paths, gone, statsFail) IN
        /\ ret' = Returned("GetStats", [gone |-> gone, statsFail |-> statsFail],
                            r.err, r.stats)
        /\ log' = <<>>
        /\ UNCHANGED <<Cgroups, Paths, mu, host, sliceVars, propVars, concVars, unitVars, verVars>>

DoFreeze ==
    \E state \in FreezerStates : \E setErr \in {NoErr, SetErr} :
        LET r == Freeze(Cgroups, state, host, setErr) IN
        /\ Cgroups' = [Cgroups EXCEPT !.Resources.Freezer = r.Freezer]
        /\ ret' = Returned("Freeze", [state |-> state, setErr |-> setErr], r.err, "")
        /\ log' = LET p == getSubsystemPath(Cgroups, "freezer", host) IN
                 IF p.err = NoErr THEN <<FsEvent("Set", "freezer", p.path)>> ELSE <<>>
        /\ UNCHANGED <<Paths, mu, host, sliceVars, propVars, concVars, unitVars, verVars>>

\* the configurations Set is handed: the manager's own, and another group's
SetInputs(c) == {c, Config("other", "", NilPaths, 4096)}

OkSetEnv ==
    [kmem |-> "ok", connErr |-> NoErr, reqErr |-> NoErr, setFail |-> "none",
     sharesErr |-> NoErr]

SetEnvs(c, cont) ==
    {OkSetEnv}
        \cup (IF cont = c
              THEN {[OkSetEnv EXCEPT !.connErr = ConnErr],
                    [OkSetEnv EXCEPT !.reqErr = DbusErr],
                    [OkSetEnv EXCEPT !.setFail = "memory"],
                    [OkSetEnv EXCEPT !.sharesErr = SharesErr]}
              ELSE {})
        \cup (IF cont.Resources.KernelMemory # 0
              THEN {[OkSetEnv EXCEPT !.kmem = k] : k \in {"tasks", "enable"}}
              ELSE {})

DoSet ==
    \E cont \in SetInputs(Cgroups) : \E senv \in SetEnvs(Cgroups, cont) :
        LET r == Set(Cgroups, cont, host, senv, Paths) IN
        /\ ret' = Returned("Set", [container |-> cont, env |-> senv], r.err, "")
        /\ log' = r.log
        /\ UNCHANGED <<Cgroups, Paths, mu, host, sliceVars, propVars, concVars,
                       unitVars, verVars>>

DoGetPids ==
    LET r == GetPids(Cgroups, host) IN
    /\ ret' = Returned("GetPids", "", r.err, r.path)
    /\ log' = IF r.err = NoErr THEN <<FsEvent("GetPids", "devices", r.path)>>
              ELSE <<>>
    /\ UNCHANGED <<Cgroups, Paths, mu, host, sliceVars, propVars, concVars,
                   unitVars, verVars>>

Next ==
    \/ DoApply \/ DoDestroy \/ DoGetPaths \/ DoGetStats \/ DoFreeze
    \/ DoSet \/ DoGetPids

Spec == Init /\ [][Next]_vars

-----------------------------------------------------------------------------
(* The manager under concurrent callers.  A call is a sequence of steps,   *)
(* one per access to the state the callers share: m.mu, m.Paths and the    *)
(* configuration's freezer field.  An access to m.Paths takes two steps,   *)
(* its beginning and its end, and thr[t].acc says which access caller t is *)
(* in the middle of.  Apply and Freeze take no lock.                       *)

ConcConfigs ==
    {Config("g", "", NilPaths, 0),
     Config("g", "", ExplicitPaths([n \in {"cpu", "memory"} |-> "/x/" \o n]), 0)}

\* what one Apply call can be answered: success, a failed unit creation, a
\* failed join; with explicit paths, a pid that attaches or not
ConcApplyEnvs(c) ==
    IF ~c.Paths.isNil
    THEN [kmem : {"ok"}, reqErr : {NoErr}, status : {"done"}, ioFail : {"none"},
          first : {"none"}, enterErr : {NoErr, EnterErr}, resetErr : {NoErr}]
    ELSE [kmem : {"ok"}, reqErr : {NoErr}, status : {"done", "failed"},
          ioFail : {"none"}, first : {"none"}, enterErr : {NoErr}, resetErr : {NoErr}]
         \cup
         [kmem : {"ok"}, reqErr : {NoErr}, status : {"done"},
          ioFail : {"devices"}, first : {"none"}, enterErr : {NoErr}, resetErr : {NoErr}]

InitConc ==
    /\ InitSliceIdle
    /\ InitPropsIdle
    /\ InitConcIdle
    /\ InitUnitIdle
    /\ InitVerIdle
    /\ Cgroups \in ConcConfigs
    /\ host = AllOk
    /\ Paths = EmptyMap
    /\ mu = "free"
    /\ ret = NoCall
    /\ log = <<>>

At(t, label) == thr[t].pc = label

Goto(t, label) == thr' = [thr EXCEPT ![t].pc = label]

Return(t) == thr' = [thr EXCEPT ![t] = Idle]

SetFreezer(state) == Cgroups' = [Cgroups EXCEPT !.Resources.Freezer = state]

unchangedByCallers == <<host, ret, log, sliceVars, propVars, unitVars, verVars>>

\* Apply, up to the assignment of m.Paths: the daemon and the filesystem
ApplyStart(t) ==
    /\ At(t, "idle")
    /\ \E env \in ConcApplyEnvs(Cgroups) :
        LET r == Apply(Cgroups, 7, host, env, Paths) IN
        IF r.wrote
        THEN thr' = [thr EXCEPT ![t].pc = "apply_write", ![t].pending = r.Paths,
                                ![t].err = r.err]
        ELSE Return(t)
    /\ UNCHANGED <<Cgroups, Paths, mu, lastSet, unchangedByCallers>>

\* m.Paths = paths begins
ApplyWriteBegin(t) ==
    /\ At(t, "apply_write")
    /\ thr' = [thr EXCEPT ![t].pc = "apply_writing", ![t].acc = "write"]
    /\ UNCHANGED <<Cgroups, Paths, mu, lastSet, unchangedByCallers>>

\* m.Paths = paths ends; with explicit paths EnterPid(m.Paths, pid) follows
ApplyWriteEnd(t) ==
    /\ At(t, "apply_writing")
    /\ Paths' = thr[t].pending
    /\ IF Cgroups.Paths.isNil
       THEN Return(t)
       ELSE thr' = [thr EXCEPT ![t].pc = "apply_enter", ![t].acc = "read"]
    /\ UNCHANGED <<Cgroups, mu, lastSet, unchangedByCallers>>

\* EnterPid has read m.Paths; Apply returns its error
ApplyEnter(t) ==
    /\ At(t, "apply_enter")
    /\ Return(t)
    /\ UNCHANGED <<Cgroups, Paths, mu, lastSet, unchangedByCallers>>

\* Destroy: nothing to do with explicit paths, else m.mu.Lock()
DestroyStart(t) ==
    /\ At(t, "idle")
    /\ IF ~Cgroups.Paths.isNil
       THEN Return(t) /\ UNCHANGED mu
       ELSE mu = "free" /\ mu' = t /\ Goto(t, "destroy_stop")
    /\ UNCHANGED <<Cgroups, Paths, lastSet, unchangedByCallers>>

\* stopUnit, then either the deferred Unlock and the error, or the
\* beginning of m.Paths = make(map[string]string).  The error a Destroy
\* returned stays in thr[t].err until the caller's next call.
DestroyStopClearsMap(t) ==
    /\ At(t, "destroy_stop")
    /\ \E reqErr \in {NoErr, DbusErr} :
       \E status \in (IF reqErr = NoErr THEN Statuses ELSE {"done"}) :
        LET stopped == stopUnit(getUnitName(Cgroups), reqErr, status) IN
        IF stopped.err # NoErr
        THEN /\ thr' = [thr EXCEPT ![t] = [Idle EXCEPT !.err = stopped.err]]
             /\ mu' = "free"
             /\ Paths' = EmptyMap
        ELSE /\ thr' = [thr EXCEPT ![t].pc = "destroy_writing", ![t].acc = "write"]
             /\ UNCHANGED <<mu, Paths>>
    /\ UNCHANGED <<Cgroups, lastSet, unchangedByCallers>>

DestroyStop(t) ==
    /\ At(t, "destroy_stop")
    /\ \E reqErr \in {NoErr, DbusErr} :
       \E status \in (IF reqErr = NoErr THEN Statuses ELSE {"done"}) :
        LET stopped == stopUnit(getUnitName(Cgroups), reqErr, status) IN
        IF stopped.err # NoErr
        THEN /\ thr' = [thr EXCEPT ![t] = [Idle EXCEPT !.err = stopped.err]]
             /\ mu' = "free"
        ELSE /\ thr' = [thr EXCEPT ![t].pc = "destroy_writing", ![t].acc = "write"]
             /\ UNCHANGED mu
    /\ UNCHANGED <<Cgroups, Paths, lastSet, unchangedByCallers>>

\* the assignment ends; the deferred Unlock
DestroyWriteEnd(t) ==
    /\ At(t, "destroy_writing")
    /\ Paths' = EmptyMap
    /\ mu' = "free"
    /\ Return(t)
    /\ UNCHANGED <<Cgroups, lastSet, unchangedByCallers>>

\* GetPaths and GetStats: m.mu.Lock() and the beginning of the read
ReadLock(t) ==
    /\ At(t, "idle")
    /\ mu = "free"
    /\ mu' = t
    /\ \E op \in {"getpaths_reading", "getstats_reading"} :
          thr' = [thr EXCEPT ![t].pc = op, ![t].acc = "read"]
    /\ UNCHANGED <<Cgroups, Paths, lastSet, unchangedByCallers>>

\* the end of the read, m.mu.Unlock() and the return
ReadUnlock(t) ==
    /\ thr[t].pc \in {"getpaths_reading", "getstats_reading"}
    /\ mu' = "free"
    /\ Return(t)
    /\ UNCHANGED <<Cgroups, Paths, lastSet, unchangedByCallers>>

\* Freeze(state): resolve the freezer path
FreezeStart(t) ==
    /\ At(t, "idle")
    /\ \E state \in FreezerStates :
        IF getSubsystemPath(Cgroups, "freezer", host).err # NoErr
        THEN Return(t)
        ELSE thr' = [thr EXCEPT ![t].pc = "freeze_read", ![t].state = state]
    /\ UNCHANGED <<Cgroups, Paths, mu, lastSet, unchangedByCallers>>

\* prevState := m.Cgroups.Resources.Freezer
FreezeRead(t) ==
    /\ At(t, "freeze_read")
    /\ thr' = [thr EXCEPT ![t].pc = "freeze_write",
                          ![t].prev = Cgroups.Resources.Freezer]
    /\ UNCHANGED <<Cgroups, Paths, mu, lastSet, unchangedByCallers>>

\* m.Cgroups.Resources.Freezer = state
FreezeWrite(t) ==
    /\ At(t, "freeze_write")
    /\ SetFreezer(thr[t].state)
    /\ Goto(t, "freeze_set")
    /\ UNCHANGED <<Paths, mu, lastSet, unchangedByCallers>>

\* freezer.Set(path, m.Cgroups): the controller applies the freezer state
\* the configuration holds now, or fails
FreezeSet(t) ==
    /\ At(t, "freeze_set")
    /\ \/ /\ lastSet' = Cgroups.Resources.Freezer
          /\ Return(t)
       \/ /\ Goto(t, "freeze_restore")
          /\ UNCHANGED lastSet
    /\ UNCHANGED <<Cgroups, Paths, mu, unchangedByCallers>>

\* m.Cgroups.Resources.Freezer = prevState, and the error is returned
FreezeRestore(t) ==
    /\ At(t, "freeze_restore")
    /\ SetFreezer(thr[t].prev)
    /\ Return(t)
    /\ UNCHANGED <<Paths, mu, lastSet, unchangedByCallers>>

NextConc ==
    \E t \in Threads :
        \/ ApplyStart(t) \/ ApplyWriteBegin(t) \/ ApplyWriteEnd(t) \/ ApplyEnter(t)
        \/ DestroyStart(t) \/ DestroyStop(t) \/ DestroyWriteEnd(t)
        \/ ReadLock(t) \/ ReadUnlock(t)
        \/ FreezeStart(t) \/ FreezeRead(t) \/ FreezeWrite(t) \/ FreezeSet(t)
        \/ FreezeRestore(t)

SpecConc == InitConc /\ [][NextConc]_vars

-----------------------------------------------------------------------------
(* The unit-lifecycle layer: startUnit, stopUnit and setUnitProperties     *)
(* send their request through cm.retryOnDisconnect, which runs the         *)
(* operation against a live connection and reconnects on a detected        *)
(* disconnect.  unitCall.outcomes are the results of the attempts made so  *)
(* far, unitCall.conns the connections acquired.                           *)

DisconnectedErr == "org.freedesktop.DBus.Error.Disconnected"

\* after an attempt that returned err, the `attempts`-th of the call: does
\* the wrapper take a fresh connection and run the operation again
retryForever(attempts, err) == err = DisconnectedErr

retryOnDisconnect(attempts, err) == err = DisconnectedErr /\ attempts < 2

setUnitProperties(name, properties, reqErr) ==
    [err |-> reqErr,
     log |-> <<[call |-> "SetUnitProperties", unit |-> name, arg |-> properties]>>]

UnitOps == {"startUnit", "stopUnit", "setUnitProperties"}

UnitNames == {getUnitName(c) : c \in ConfigInputs}

\* what one attempt of the request can return
OpOutcomes(op) ==
    {NoErr, DisconnectedErr, DbusErr}
        \cup (IF op = "startUnit" THEN {UnitExistsErr} ELSE {})

InitUnit ==
    /\ InitSliceIdle
    /\ InitPropsIdle
    /\ InitMgrIdle
    /\ InitVerIdle
    /\ unitCall \in {[NoUnitCall EXCEPT !.pc = "connect", !.op = op, !.unit = u] :
                        op \in UnitOps, u \in UnitNames}

unchangedByUnit == <<sliceVars, propVars, mgrVars, concVars, verVars>>

\* the wrapper takes the connection, a new one when there is none
GetConnection ==
    /\ unitCall.pc = "connect"
    /\ \/ unitCall' = [unitCall EXCEPT !.pc = "op", !.conns = @ + 1]
       \/ unitCall' = [unitCall EXCEPT !.pc = "wait", !.reqErr = ConnErr]
    /\ UNCHANGED unchangedByUnit

\* one attempt of the operation; on a disconnect the wrapper drops the
\* connection and goes round again, or gives up
RunOperation ==
    /\ unitCall.pc = "op"
    /\ \E e \in OpOutcomes(unitCall.op) :
        LET done == Append(unitCall.outcomes, e) IN
        IF retryOnDisconnect(Len(done), e)
        THEN unitCall' = [unitCall EXCEPT !.pc = "connect", !.outcomes = done]
        ELSE unitCall' = [unitCall EXCEPT !.pc = "wait", !.outcomes = done,
                                          !.reqErr = e]
    /\ UNCHANGED unchangedByUnit

\* the rest of startUnit: the completion status or the timer, the reset
CompleteStartUnit ==
    /\ unitCall.pc = "wait"
    /\ unitCall.op = "startUnit"
    /\ \E status \in (IF unitCall.reqErr = NoErr THEN Statuses ELSE {""}) :
       \E resetErr \in (IF status \in {"done", ""} THEN {NoErr} ELSE {NoErr, ResetErr}) :
        LET r == startUnit(unitCall.unit, <<>>, unitCall.reqErr, status, resetErr) IN
        unitCall' = [unitCall EXCEPT !.pc = "done", !.status = status,
                                     !.resetErr = resetErr, !.err = r.err,
                                     !.log = r.log]
    /\ UNCHANGED unchangedByUnit

\* the rest of stopUnit
CompleteStopUnit ==
    /\ unitCall.pc = "wait"
    /\ unitCall.op = "stopUnit"
    /\ \E status \in (IF unitCall.reqErr = NoErr THEN Statuses ELSE {""}) :
        LET r == stopUnit(unitCall.unit, unitCall.reqErr, status) IN
        unitCall' = [unitCall EXCEPT !.pc = "done", !.status = status,
                                     !.err = r.err, !.log = r.log]
    /\ UNCHANGED unchangedByUnit

\* setUnitProperties returns what the wrapper returns
CompleteSetUnitProperties ==
    /\ unitCall.pc = "wait"
    /\ unitCall.op = "setUnitProperties"
    /\ LET r == setUnitProperties(unitCall.unit, <<>>, unitCall.reqErr) IN
        unitCall' = [unitCall EXCEPT !.pc = "done", !.err = r.err, !.log = r.log]
    /\ UNCHANGED unchangedByUnit

NextUnit ==
    \/ GetConnection
    \/ RunOperation
    \/ CompleteStartUnit
    \/ CompleteStopUnit
    \/ CompleteSetUnitProperties

SpecUnit == InitUnit /\ [][NextUnit]_vars

-----------------------------------------------------------------------------
(* systemdVersion: versionOnce.Do runs the query for the first caller and  *)
(* makes every other caller wait until it is done.  verCall[t].got are the *)
(* values systemdVersion has returned to caller t, verCall[t].ans is the   *)
(* daemon's answer to the query when t is the caller that ran it,          *)
(* verCall[t].use is the translator that called systemdVersion with its    *)
(* arguments, and verCall[t].out what that translator then returned.       *)

Digits == {"0", "1", "2", "3", "4", "5", "6", "7", "8", "9"}

DigitValue(d) ==
    CASE d = "0" -> 0 [] d = "1" -> 1 [] d = "2" -> 2 [] d = "3" -> 3
      [] d = "4" -> 4 [] d = "5" -> 5 [] d = "6" -> 6 [] d = "7" -> 7
      [] d = "8" -> 8 [] d = "9" -> 9

\* the first run of digits of s from position i on: what the group of
\* v?([0-9]+) captures in the leftmost match, "" when nothing matches
RECURSIVE DigitRun(_, _)
DigitRun(s, i) ==
    IF i > Len(s) \/ SubSeq(s, i, i) \notin Digits THEN ""
    ELSE SubSeq(s, i, i) \o DigitRun(s, i + 1)

RECURSIVE FirstDigits(_, _)
FirstDigits(s, i) ==
    IF i > Len(s) THEN ""
    ELSE IF SubSeq(s, i, i) \in Digits THEN DigitRun(s, i)
    ELSE FirstDigits(s, i + 1)

RECURSIVE DecimalValue(_, _)
DecimalValue(ds, n) ==
    IF n = 0 THEN 0
    ELSE DecimalValue(ds, n - 1) * 10 + DigitValue(SubSeq(ds, n, n))

\* strconv.Atoi on a run of digits: a number of 20 digits or more is out of
\* the range of int.  (Runs of 10 to 19 digits are not among the inputs.)
AtoiOutOfRange(ds) == Len(ds) >= 20

\* systemdVersionAtoi(verStr): [ver, err]
systemdVersionAtoi(verStr) ==
    LET ds == FirstDigits(verStr, 1) IN
    IF ds = "" THEN [ver |-> 0, err |-> "can't parse version " \o verStr]
    ELSE IF AtoiOutOfRange(ds) THEN [ver |-> -1, err |-> "can't parse version"]
    ELSE [ver |-> DecimalValue(ds, Len(ds)), err |-> NoErr]

\* strconv.Unquote of the property value, for values without escapes
Unquote(str) ==
    IF Len(str) >= 2 /\ SubSeq(str, 1, 1) = "\"" /\ SubSeq(str, Len(str), Len(str)) = "\""
    THEN [str |-> SubSeq(str, 2, Len(str) - 1), err |-> NoErr]
    ELSE [str |-> "", err |-> "invalid syntax"]

\* what the function run by versionOnce leaves in version when the daemon
\* answers ans to the query: ans is the error of the request, or the value
VersionOf(ans) ==
    IF ans.err # NoErr THEN -1
    ELSE LET u == Unquote(ans.str) IN
         IF u.err # NoErr THEN -1 ELSE systemdVersionAtoi(u.str).ver

\* a decimal number without sign
IsNumber(s) == s # "" /\ \A i \in 1..Len(s) : SubSeq(s, i, i) \in Digits

\* one component of a range expression, a number or a-b with a <= b: the
\* indexes it names
RangeComponent(r) ==
    LET ends == Split(r, "-")
        val(s) == DecimalValue(s, Len(s))
    IN  IF Len(ends) = 1 /\ IsNumber(ends[1])
        THEN [bits |-> {val(ends[1])}, err |-> NoErr]
        ELSE IF /\ Len(ends) = 2 /\ IsNumber(ends[1]) /\ IsNumber(ends[2])
                /\ val(ends[1]) <= val(ends[2])
        THEN [bits |-> val(ends[1])..val(ends[2]), err |-> NoErr]
        ELSE [bits |-> {}, err |-> "invalid range: " \o r]

\* RangeToBits(str): [bits, err], the bitmask as the set of the indexes of
\* its bits that are set; a malformed component fails the conversion
RangeToBits(str) ==
    LET comps == Split(str, ",")
        bad == {i \in 1..Len(comps) : RangeComponent(comps[i]).err # NoErr}
    IN  IF bad # {}
        THEN [bits |-> {}, err |-> "invalid range: " \o str]
        ELSE [bits |-> UNION {RangeComponent(comps[i]).bits : i \in 1..Len(comps)},
              err |-> NoErr]

\* addCpuset(cm, props, cpus, mems): the properties it appends and the
\* error, when systemdVersion(cm) returns ver
addCpusetAnyVersion(ver, cpus, mems) ==
    LET c == RangeToBits(cpus)
        m == RangeToBits(mems)
        cpuProp == IF cpus # "" THEN <<newProp("AllowedCPUs", c.bits)>> ELSE <<>>
        memProp == IF mems # "" THEN <<newProp("AllowedMemoryNodes", m.bits)>> ELSE <<>>
    IN  IF cpus = "" /\ mems = "" THEN [props |-> <<>>, err |-> NoErr]
        ELSE IF cpus # "" /\ c.err # NoErr
        THEN [props |-> <<>>,
              err |-> "resources.CPU.Cpus=" \o cpus \o " conversion error: " \o c.err]
        ELSE IF mems # "" /\ m.err # NoErr
        THEN [props |-> cpuProp,
              err |-> "resources.CPU.Mems=" \o mems \o " conversion error: " \o m.err]
        ELSE [props |-> cpuProp \o memProp, err |-> NoErr]

addCpuset(ver, cpus, mems) ==
    LET c == RangeToBits(cpus)
        m == RangeToBits(mems)
        cpuProp == IF cpus # "" THEN <<newProp("AllowedCPUs", c.bits)>> ELSE <<>>
        memProp == IF mems # "" THEN <<newProp("AllowedMemoryNodes", m.bits)>> ELSE <<>>
    IN  IF cpus = "" /\ mems = "" THEN [props |-> <<>>, err |-> NoErr]
        ELSE IF ver < 244 THEN [props |-> <<>>, err |-> NoErr]
        ELSE IF cpus # "" /\ c.err # NoErr
        THEN [props |-> <<>>,
              err |-> "resources.CPU.Cpus=" \o cpus \o " conversion error: " \o c.err]
        ELSE IF mems # "" /\ m.err # NoErr
        THEN [props |-> cpuProp,
              err |-> "resources.CPU.Mems=" \o mems \o " conversion error: " \o m.err]
        ELSE [props |-> cpuProp \o memProp, err |-> NoErr]

\* the translator calls that reach systemdVersion: addCpuQuota with a
\* period, addCpuset with a range
NoUse == [fn |-> "", quota |-> <<>>, period |-> 0, cpus |-> "", mems |-> ""]

VersionUses ==
    {[NoUse EXCEPT !.fn = "addCpuQuota", !.quota = U64(25000), !.period = 100000]}
        \cup {[NoUse EXCEPT !.fn = "addCpuset", !.cpus = r[1], !.mems = r[2]] :
                 r \in {<<"0-3", "0,2">>, <<"2", "3-1">>}}

\* the translator call and what it returns when systemdVersion returned ver
\* to it
TranslatorResult(use, ver) ==
    IF use.fn = "addCpuQuota"
    THEN [use |-> use, props |-> addCpuQuota(ver, use.quota, use.period),
          err |-> NoErr]
    ELSE LET r == addCpuset(ver, use.cpus, use.mems) IN
         [use |-> use, props |-> r.props, err |-> r.err]

NoOut == [use |-> NoUse, props |-> <<>>, err |-> NoErr]

\* the answers to the query of the Version manager property
VersionAnswers ==
    {[str |-> "", err |-> DbusErr]}
        \cup {[str |-> s, err |-> NoErr] :
                s \in {"\"v245.4-1.fc32\"", "\"241\"", "\"245-1.fc32\"", "\"systemd\"",
                       "244", "\"99999999999999999999\""}}

NoAnswer == [str |-> "", err |-> NoErr]

InitVersion ==
    /\ InitSliceIdle
    /\ InitPropsIdle
    /\ InitMgrIdle
    /\ InitUnitIdle
    /\ versionOnce = "new"
    /\ version = 0
    /\ verCall = [t \in VersionCallers |->
                    [pc |-> "idle", ans |-> NoAnswer, got |-> {},
                     use |-> NoUse, out |-> NoOut]]
    /\ queries = 0

unchangedByVersion == <<sliceVars, propVars, mgrVars, concVars, unitVars>>

\* a translator is called, and enters systemdVersion
VersionCall(t) ==
    /\ verCall[t].pc = "idle"
    /\ \E use \in VersionUses :
          verCall' = [verCall EXCEPT ![t].pc = "do", ![t].use = use]
    /\ UNCHANGED <<versionOnce, version, queries, unchangedByVersion>>

\* versionOnce.Do: the first caller runs the function, a caller that
\* arrives while it runs waits, a caller that arrives later skips it
OnceEnterUnguarded(t) ==
    /\ verCall[t].pc = "do"
    /\ versionOnce' = t
    /\ verCall' = [verCall EXCEPT ![t].pc = "init"]
    /\ UNCHANGED <<version, queries, unchangedByVersion>>

OnceEnter(t) ==
    /\ verCall[t].pc = "do"
    /\ versionOnce \in {"new", "done"}
    /\ IF versionOnce = "new"
       THEN /\ versionOnce' = t
            /\ verCall' = [verCall EXCEPT ![t].pc = "init"]
       ELSE /\ verCall' = [verCall EXCEPT ![t].pc = "read"]
            /\ UNCHANGED versionOnce
    /\ UNCHANGED <<version, queries, unchangedByVersion>>

\* version = -1
VersionInit(t) ==
    /\ verCall[t].pc = "init"
    /\ version' = -1
    /\ verCall' = [verCall EXCEPT ![t].pc = "query"]
    /\ UNCHANGED <<versionOnce, queries, unchangedByVersion>>

\* getManagerProperty(cm, "Version")
VersionQuery(t) ==
    /\ verCall[t].pc = "query"
    /\ queries' = queries + 1
    /\ \E ans \in VersionAnswers :
          verCall' = [verCall EXCEPT ![t].pc = "assign", ![t].ans = ans]
    /\ UNCHANGED <<versionOnce, version, unchangedByVersion>>

\* version, err = systemdVersionAtoi(verStr); the function returns, and
\* versionOnce is done
VersionAssign(t) ==
    /\ verCall[t].pc = "assign"
    /\ version' = VersionOf(verCall[t].ans)
    /\ versionOnce' = "done"
    /\ verCall' = [verCall EXCEPT ![t].pc = "read"]
    /\ UNCHANGED <<queries, unchangedByVersion>>

\* return version, and the translator that asked for it goes on with it
VersionReturn(t) ==
    /\ verCall[t].pc = "read"
    /\ verCall' = [verCall EXCEPT ![t].pc = "idle", ![t].got = @ \cup {version},
                                  ![t].use = NoUse,
                                  ![t].out = TranslatorResult(verCall[t].use, version)]
    /\ UNCHANGED <<versionOnce, version, queries, unchangedByVersion>>

NextVersion ==
    \E t \in VersionCallers :
        \/ VersionCall(t) \/ OnceEnter(t) \/ VersionInit(t) \/ VersionQuery(t)
        \/ VersionAssign(t) \/ VersionReturn(t)

SpecVersion == InitVersion /\ [][NextVersion]_vars

-----------------------------------------------------------------------------
(* Claims about ExpandSlice                                                *)

\* The places where a name is cut into components: before its first
\* character, at every "-", and after its last character.
Cuts(name) ==
    {0} \cup {i \in 1..Len(name) : SubSeq(name, i, i) = "-"} \cup {Len(name) + 1}

\* some component between two cuts is empty
HasEmptyComponent(name) == \E c \in Cuts(name) : c + 1 \in Cuts(name)

\* A name (the part before ".slice") of N >= 1 non-empty components
WellFormedName(name) ==
    /\ ~Contains(name, "/")
    /\ ~HasEmptyComponent(name)

\* The segments "/" + c1-...-ci + ".slice" for i = 1..N, in order:
\* c1-...-ci is the name up to its i-th cut.
RECURSIVE NestedFrom(_, _)
NestedFrom(name, i) ==
    IF i > Len(name) + 1 THEN ""
    ELSE (IF i \in Cuts(name) THEN "/" \o SubSeq(name, 1, i - 1) \o suffix ELSE "")
         \o NestedFrom(name, i + 1)

NestedPath(name) == NestedFrom(name, 1)

\* C1: a name c1-...-cN.slice with N >= 1 non-empty components and no "/"
\* expands, without error, to exactly the N nested segments
\* /c1.slice/c1-c2.slice/.../c1-...-cN.slice.
C1_ExpandSliceNested ==
    (slicePc = "done" /\ HasSuffix(slice, suffix)
        /\ WellFormedName(TrimSuffix(slice, suffix))) =>
            expanded = [path |-> NestedPath(TrimSuffix(slice, suffix)),
                        err |-> NoErr]

C1_Witness ==
    /\ slicePc = "done"
    /\ slice = "a-b-a.slice"
    /\ expanded.path = "/a.slice/a-b.slice/a-b-a.slice"

\* Malformed: no ".slice" suffix, just ".slice", a "/", or an empty component
Malformed(s) ==
    \/ ~HasSuffix(s, suffix)
    \/ s = suffix
    \/ Contains(s, "/")
    \/ HasEmptyComponent(TrimSuffix(s, suffix))

\* C2: "/" is returned for exactly "-.slice"; every malformed name other than
\* that one fails with the invalid-slice-name error and an empty path.
C2_ExpandSliceRejects ==
    slicePc = "done" =>
        /\ (expanded = [path |-> "/", err |-> NoErr]) <=> (slice = "-.slice")
        /\ (Malformed(slice) /\ slice # "-.slice") =>
                expanded = [path |-> "", err |-> InvalidSliceName(slice)]

C2_Witness ==
    /\ slicePc = "done"
    /\ slice = "a/b.slice"
    /\ expanded.err = InvalidSliceName("a/b.slice")

-----------------------------------------------------------------------------
(* Claims about the manager, one caller at a time                          *)

DaemonMode == Cgroups.Paths.isNil

\* C5: an Apply call that returns an error leaves the path map as it was
\* before the call, in daemon mode and in explicit-path mode.
C5_ApplyErrorKeepsMap ==
    (ret.op = "Apply" /\ ret.err # NoErr) => Paths = ret.prePaths

\* what C5 says, of daemon mode alone
ApplyErrorKeepsMapDaemon ==
    (ret.op = "Apply" /\ ret.err # NoErr /\ DaemonMode) => Paths = ret.prePaths

\* C7: a Freeze(state) call whose freezer path does not resolve, or whose
\* controller Set fails, returns that error and leaves the configuration's
\* freezer field as it was; when Set succeeds it returns no error and the
\* field is the requested state.
C7_FreezeSetsOrRestores ==
    ret.op = "Freeze" =>
        LET p == getSubsystemPath(Cgroups, "freezer", host)
            field == Cgroups.Resources.Freezer
        IN  /\ p.err # NoErr => (ret.err = p.err /\ field = ret.preFreezer)
            /\ (p.err = NoErr /\ ret.arg.setErr # NoErr) =>
                  (ret.err = ret.arg.setErr /\ field = ret.preFreezer)
            /\ (p.err = NoErr /\ ret.arg.setErr = NoErr) =>
                  (ret.err = NoErr /\ field = ret.arg.state)

C7_Witness ==
    /\ ret.op = "Freeze"
    /\ ret.arg = [state |-> Frozen, setErr |-> SetErr]
    /\ ret.err = SetErr
    /\ ret.preFreezer = Thawed
    /\ Cgroups.Resources.Freezer = Thawed

\* C9: in daemon mode the path map is empty after a Destroy that returns
\* success; in explicit-path mode Destroy sends no stop request, returns
\* success and leaves the path map as it was.
C9_DestroyClearsMap ==
    ret.op = "Destroy" =>
        /\ (DaemonMode /\ ret.err = NoErr) => Paths = EmptyMap
        /\ ~DaemonMode => (log = <<>> /\ ret.err = NoErr /\ Paths = ret.prePaths)

C9_Witness ==
    /\ ret.op = "Destroy"
    /\ DaemonMode
    /\ ret.err = NoErr
    /\ "memory" \in DOMAIN ret.prePaths
    /\ Paths = EmptyMap

\* C10: when the stop request is accepted and a completion status other
\* than "done" arrives, stopUnit returns no error: Destroy returns success
\* and clears the path map.
C10_StopStatusSwallowed ==
    (ret.op = "Destroy" /\ DaemonMode /\ ret.arg.reqErr = NoErr
        /\ ret.arg.status \notin {"done", "timeout"}) =>
            /\ stopUnit(getUnitName(Cgroups), ret.arg.reqErr, ret.arg.status).err = NoErr
            /\ ret.err = NoErr
            /\ Paths = EmptyMap

C10_Witness ==
    /\ ret.op = "Destroy"
    /\ DaemonMode
    /\ ret.arg = [reqErr |-> NoErr, status |-> "failed"]
    /\ log = <<[call |-> "StopUnit", unit |-> "runc-g.scope", arg |-> <<>>]>>
    /\ ret.err = NoErr
    /\ "cpu" \in DOMAIN ret.prePaths
    /\ Paths = EmptyMap

\* C11: when the stop request is accepted and no completion status arrives
\* before the 30-second timer fires, stopUnit returns no error and Destroy
\* does not fail.
C11_StopTimeoutSwallowed ==
    (ret.op = "Destroy" /\ DaemonMode /\ ret.arg.reqErr = NoErr
        /\ ret.arg.status = "timeout") =>
            /\ stopUnit(getUnitName(Cgroups), NoErr, "timeout").err = NoErr
            /\ ret.err = NoErr

\* the direct filesystem joins of the last call
JoinEvents == {i \in 1..Len(log) : log[i].call \in {"join", "ApplyDir"}}

UnitRequested == \E i \in 1..Len(log) : log[i].call = "StartTransientUnit"

\* the unit creation of the last Apply failed otherwise than by "exists"
CreationFailed ==
    \/ ret.arg.env.reqErr \notin {NoErr, UnitExistsErr}
    \/ ret.arg.env.reqErr = NoErr /\ ret.arg.env.status # "done"

\* C14: in daemon-mode Apply a unit creation that fails with "unit already
\* exists" does not abort Apply: the joins and the path recording run as
\* after a successful creation; any other creation failure (a rejected
\* request, a status other than "done", a timeout) makes Apply return an
\* error before any per-controller join.
C14_UnitExistsDoesNotAbort ==
    (ret.op = "Apply" /\ DaemonMode /\ UnitRequested) =>
        /\ CreationFailed =>
              /\ ret.err # NoErr
              /\ ret.arg.env.reqErr # NoErr => ret.err = ret.arg.env.reqErr
              /\ JoinEvents = {}
              /\ Paths = ret.prePaths
        /\ ret.arg.env.reqErr = UnitExistsErr =>
              LET created == Apply(Cgroups, ret.arg.pid, host,
                                   [ret.arg.env EXCEPT !.reqErr = NoErr],
                                   ret.prePaths)
              IN  /\ ret.err = created.err
                  /\ Paths = created.Paths
                  /\ Tail(log) = Tail(created.log)
                  /\ (host = AllOk /\ ret.arg.env.ioFail = "none"
                        /\ ExpandSlice(SliceOf(Cgroups)).err = NoErr) =>
                        (ret.err = NoErr /\ Cardinality(JoinEvents) = 12)

C14_Witness ==
    /\ ret.op = "Apply"
    /\ DaemonMode
    /\ ret.arg.env.reqErr = UnitExistsErr
    /\ ret.arg.env.ioFail = "none"
    /\ ret.err = NoErr
    /\ Cardinality(JoinEvents) = 12
    /\ DOMAIN Paths = SubsystemNames

\* the controllers the last call joined at a directory (an ApplyDir of the
\* empty path joins nothing)
JoinedNames == {log[i].unit : i \in {j \in JoinEvents : log[j].arg # ""}}

\* how the join of controller n fails in the last Apply: not at all, with
\* hierarchy-not-found, or otherwise (the mounts cannot be read, the slice
\* name is invalid, the directory cannot be written)
JoinFailure(n) ==
    LET io == ret.arg.env.ioFail = n IN
    IF host[n] = "err" THEN "other"
    ELSE IF host[n] = "notfound"
    THEN (IF n = "cpuset" /\ io THEN "other" ELSE "notfound")
    ELSE IF ExpandSlice(SliceOf(Cgroups)).err # NoErr \/ io THEN "other"
    ELSE "none"

JoinAborts(n) ==
    /\ n # "name=systemd"
    /\ \/ JoinFailure(n) = "other"
       \/ n = "devices" /\ JoinFailure(n) = "notfound"

AbortingIndexes == {i \in 1..Len(legacySubsystems) : JoinAborts(legacySubsystems[i])}

\* the controllers the pass reaches: those before the first that aborts
ReachedIndexes ==
    {i \in 1..Len(legacySubsystems) : \A j \in AbortingIndexes : i < j}

\* C17: in Apply's join pass over the ordered controller set a failure to
\* join "devices" (hierarchy-not-found included) aborts Apply with that
\* error; for every other controller hierarchy-not-found is skipped and the
\* pass goes on, any other failure aborts Apply; "name=systemd" is never
\* joined directly.
C17_JoinPass ==
    (ret.op = "Apply" /\ DaemonMode /\ UnitRequested /\ ~CreationFailed) =>
        /\ JoinedNames = {legacySubsystems[i] : i \in
                            {j \in ReachedIndexes :
                                /\ legacySubsystems[j] # "name=systemd"
                                /\ JoinFailure(legacySubsystems[j]) = "none"}}
        /\ "name=systemd" \notin JoinedNames
        /\ AbortingIndexes # {} => (ret.err # NoErr /\ Paths = ret.prePaths)
        /\ host["devices"] = "notfound" /\ JoinFailure("cpuset") # "other" =>
              ret.err = NotFoundErr("devices")
        /\ (AbortingIndexes = {} /\ host["name=systemd"] # "err") => ret.err = NoErr

C17_Witness ==
    /\ ret.op = "Apply"
    /\ DaemonMode
    /\ UnitRequested
    /\ host["devices"] = "notfound"
    /\ ret.arg.env.ioFail = "memory"
    /\ ret.err = NotFoundErr("devices")
    /\ JoinedNames = {"cpuset"}

\* a hierarchy that is not found is skipped, and the pass goes on
JoinPassSkips ==
    /\ ret.op = "Apply"
    /\ DaemonMode
    /\ host["memory"] = "notfound"
    /\ ret.err = NoErr
    /\ JoinedNames = SubsystemNames \ {"memory", "name=systemd"}

\* the unit name the manager's own configuration gives
OwnUnitName ==
    IF HasSuffix(Cgroups.Name, ".slice") THEN Cgroups.Name
    ELSE Cgroups.ScopePrefix \o "-" \o Cgroups.Name \o ".scope"

DaemonCalls == {"StartTransientUnit", "ResetFailedUnit", "StopUnit", "SetUnitProperties"}

PathCalls ==
    {"join", "ApplyDir", "MkdirAll", "EnableKernelMemoryAccounting", "Set",
     "GetPids", "CheckCpushares"}

\* every request and every resolved path of the last call is for unit u
AddressesOnly(u) ==
    \A i \in 1..Len(log) :
        /\ log[i].call \in DaemonCalls => log[i].unit = u
        /\ (log[i].call \in PathCalls /\ log[i].arg # "") =>
              HasSuffix(log[i].arg, "/" \o u)

\* C18: over any sequence of Apply, Set, Freeze, GetPids and Destroy calls
\* on one manager every daemon request and every controller path
\* resolution addresses the unit name derived from the manager's own
\* configuration.
C18_OneUnitName == AddressesOnly(OwnUnitName)

\* what C18 says, of every call but a Set that is handed a configuration
\* other than the manager's own
OneUnitNameOwnConfig ==
    ~(ret.op = "Set" /\ ret.arg.container # Cgroups) => AddressesOnly(OwnUnitName)

\* C19: with explicit controller-to-path overrides Apply sends the daemon
\* nothing and makes no daemon-mode join; the recorded map is exactly the
\* override entries whose hierarchy resolves on the host, each with its
\* override path; entries whose hierarchy is not found are skipped without
\* error; any other resolution error aborts Apply; the pid is attached to
\* every recorded path.
C19_ExplicitPaths ==
    (ret.op = "Apply" /\ ~DaemonMode) =>
        LET over == Cgroups.Paths.m
            broken == {n \in DOMAIN over : host[n] = "err"}
            found == {n \in DOMAIN over : host[n] = "ok"}
        IN  /\ \A i \in 1..Len(log) : log[i].call \notin DaemonCalls \cup PathCalls
            /\ broken # {} =>
                  /\ ret.err \in {HostErr(n) : n \in broken}
                  /\ log = <<>>
                  /\ Paths = ret.prePaths
            /\ broken = {} =>
                  /\ Paths = [n \in found |-> over[n]]
                  /\ log = <<[call |-> "EnterPid", unit |-> "", arg |-> Paths]>>
                  /\ ret.err = ret.arg.env.enterErr

C19_Witness ==
    /\ ret.op = "Apply"
    /\ ~DaemonMode
    /\ DOMAIN Cgroups.Paths.m = {"cpu", "memory", "foo"}
    /\ host["memory"] = "notfound"
    /\ ret.err = NoErr
    /\ Paths = [n \in {"cpu"} |-> "/x/cpu"]
    /\ log = <<[call |-> "EnterPid", unit |-> "", arg |-> Paths]>>

CallsOf(what) == {i \in 1..Len(log) : log[i].call = what}

\* the configuration the kernel-memory step of the last call worked on
KmemConfig == IF ret.op = "Set" THEN ret.arg.container ELSE Cgroups

\* the memory controller's directory could be resolved for that step
KmemDirResolves ==
    host["memory"] = "ok" /\ ExpandSlice(SliceOf(KmemConfig)).err = NoErr

\* C20: with a nonzero kernel-memory limit, Apply writes the kernel-memory
\* setting to the memory controller's directory before it sends the
\* unit-creation request; Apply and Set skip the write, without an error,
\* when the group's member list is not empty; a failure of the step aborts
\* Apply before any unit is created.
C20_KernelMemoryFirst ==
    (ret.op \in {"Apply", "Set"} /\ DaemonMode
        /\ KmemConfig.Resources.KernelMemory # 0) =>
        LET kmem == ret.arg.env.kmem
            writes == CallsOf("EnableKernelMemoryAccounting")
            requests == CallsOf("StartTransientUnit") \cup CallsOf("SetUnitProperties")
        IN  /\ \A i \in writes : \A j \in requests : i < j
            /\ (KmemDirResolves /\ kmem = "ok") =>
                  (Cardinality(writes) = 1
                   /\ (ret.op = "Apply" => CallsOf("StartTransientUnit") # {}))
            /\ (KmemDirResolves /\ kmem = "tasks") =>
                  /\ writes = {}
                  /\ ret.op = "Apply" => CallsOf("StartTransientUnit") # {}
                  /\ (ret.op = "Set" /\ ret.arg.env.connErr = NoErr) =>
                        CallsOf("SetUnitProperties") # {}
            /\ (ret.op = "Apply" /\ (~KmemDirResolves \/ kmem \in {"mkdir", "read", "enable"})) =>
                  /\ ret.err # NoErr
                  /\ CallsOf("StartTransientUnit") = {}
                  /\ JoinEvents = {}
                  /\ Paths = ret.prePaths

C20_Witness ==
    /\ ret.op = "Apply"
    /\ DaemonMode
    /\ Cgroups.Resources.KernelMemory # 0
    /\ ret.arg.env.kmem = "tasks"
    /\ ret.err = NoErr
    /\ log[1].call = "MkdirAll"
    /\ log[2].call = "StartTransientUnit"
    /\ CallsOf("EnableKernelMemoryAccounting") = {}

\* the write is made, and made before the unit is asked for
KernelMemoryWritten ==
    /\ ret.op = "Apply"
    /\ ret.arg.env.kmem = "ok"
    /\ Len(log) >= 3
    /\ log[2].call = "EnableKernelMemoryAccounting"
    /\ log[3].call = "StartTransientUnit"

\* Set skips the write for a group that has members
KernelMemorySkippedInSet ==
    /\ ret.op = "Set"
    /\ ret.arg.env.kmem = "tasks"
    /\ ret.err = NoErr
    /\ CallsOf("MkdirAll") # {}
    /\ CallsOf("EnableKernelMemoryAccounting") = {}

\* the controllers whose Set the last call invoked, in the order of the calls
RECURSIVE SetNamesFrom(_)
SetNamesFrom(i) ==
    IF i > Len(log) THEN <<>>
    ELSE (IF log[i].call = "Set" THEN <<log[i].unit>> ELSE <<>>) \o SetNamesFrom(i + 1)

\* the translation of the last Set failed: its kernel-memory step did
SetTranslationFailed ==
    /\ KmemConfig.Resources.KernelMemory # 0
    /\ ~KmemDirResolves \/ ret.arg.env.kmem \in {"mkdir", "read", "enable"}

\* C21: with explicit paths Set returns success without a daemon call and
\* without any controller's Set.  In daemon mode the property update comes
\* before every controller's Set, and these are invoked in registry order;
\* when the translation or the property update fails no controller's Set is
\* invoked; the first controller Set failure stops the pass and is
\* returned; the CPU-shares check comes last, and only when a "cpu" path is
\* recorded.
C21_SetOrder ==
    ret.op = "Set" =>
        LET env == ret.arg.env
            names == SetNamesFrom(1)
            updates == CallsOf("SetUnitProperties")
            checks == CallsOf("CheckCpushares")
        IN  /\ ~DaemonMode => (ret.err = NoErr /\ log = <<>>)
            /\ DaemonMode =>
                  /\ \A i \in updates : \A j \in CallsOf("Set") : i < j
                  /\ names = SubSeq(legacySubsystems, 1, Len(names))
                  /\ names # <<>> => Cardinality(updates) = 1
                  /\ (SetTranslationFailed \/ env.connErr # NoErr \/ env.reqErr # NoErr) =>
                        (names = <<>> /\ checks = {} /\ ret.err # NoErr)
                  /\ (env.setFail = "memory" /\ ~SetTranslationFailed
                        /\ ExpandSlice(SliceOf(ret.arg.container)).err = NoErr
                        /\ \A n \in {"cpuset", "devices", "memory"} : host[n] # "err") =>
                        /\ names = <<"cpuset", "devices">>
                        /\ ret.err = IoErr("memory")
                        /\ checks = {}
                  /\ checks # {} =>
                        /\ checks = {Len(log)}
                        /\ "cpu" \in DOMAIN Paths
                        /\ log[Len(log)].arg = Paths["cpu"]
                        /\ names = legacySubsystems
                        /\ ret.err = env.sharesErr
                  /\ (names = legacySubsystems /\ "cpu" \in DOMAIN Paths) => checks # {}
                  /\ (ret.err = NoErr) => names = legacySubsystems

C21_Witness ==
    /\ ret.op = "Set"
    /\ DaemonMode
    /\ ret.arg.env.setFail = "memory"
    /\ "cpu" \in DOMAIN Paths
    /\ Len(log) = 3
    /\ log[1].call = "SetUnitProperties"
    /\ SetNamesFrom(1) = <<"cpuset", "devices">>
    /\ ret.err = IoErr("memory")

\* a Set that goes through: the update, thirteen controllers, the check
SetCompletes ==
    /\ ret.op = "Set"
    /\ ret.err = NoErr
    /\ SetNamesFrom(1) = legacySubsystems
    /\ log[Len(log)].call = "CheckCpushares"

\* C23: when the stop request itself fails, stopUnit waits for no
\* completion status (what it returns depends on none, not even on the
\* timer) and returns no error: Destroy returns success and clears the path
\* map, the only exchange with the daemon being the request that failed.
C23_FailedStopRequestSwallowed ==
    (ret.op = "Destroy" /\ DaemonMode /\ ret.arg.reqErr # NoErr) =>
        LET unit == getUnitName(Cgroups)
            req == [call |-> "StopUnit", unit |-> unit, arg |-> <<>>]
        IN  /\ \A e \in {ret.arg.reqErr, DisconnectedErr, UnitExistsErr} :
                \A status \in Statuses :
                    stopUnit(unit, e, status) = [err |-> NoErr, log |-> <<req>>]
            /\ log = <<req>>
            /\ ret.err = NoErr
            /\ Paths = EmptyMap

C23_Witness ==
    /\ ret.op = "Destroy"
    /\ DaemonMode
    /\ ret.arg.reqErr = DbusErr
    /\ CallsOf("StopUnit") = {1}
    /\ ret.err = NoErr
    /\ "devices" \in DOMAIN ret.prePaths
    /\ Paths = EmptyMap

-----------------------------------------------------------------------------
(* Claims about the CPU quota translation                                  *)

\* the values of the CPUQuotaPerSecUSec properties of the output
QuotaValues ==
    {props.props[i].Value : i \in {j \in 1..Len(props.props) :
                                      props.props[j].Name = "CPUQuotaPerSecUSec"}}

Translated == propsPc \in {"addCpuQuota", "genV1ResourcesProperties"} /\ props.err = NoErr

\* v is a multiple of 10000 and v >= quota*1000000/period, exactly
\* (v*period >= quota*1000000 in 12 bytes, where nothing wraps)
RoundedUp(v, quota, period) ==
    /\ Mod(v, 10000) = 0
    /\ Geq(Mul(v, period, 12), Mul(quota, 1000000, 12))

\* C3: for quota > 0 and period > 0 the emitted CPUQuotaPerSecUSec is a
\* multiple of 10000 and at least the exact quota*1000000/period.
C3_QuotaRoundedUp ==
    (Translated /\ Int64Positive(resources.CpuQuota) /\ resources.CpuPeriod > 0) =>
        /\ QuotaValues # {}
        /\ \A v \in QuotaValues :
              RoundedUp(v, resources.CpuQuota, resources.CpuPeriod)

\* quota*1000000 fits in 64 bits, with room for the rounding
NoQuotaOverflow(quota) ==
    Geq(Mul(MaxUint64, 1, 12), Add(Mul(quota, 1000000, 12), 10000, 12))

\* what C3 says, for the quotas whose product with 1000000 does not wrap
QuotaRoundedUpWithoutOverflow ==
    (Translated /\ Int64Positive(resources.CpuQuota) /\ resources.CpuPeriod > 0
        /\ NoQuotaOverflow(resources.CpuQuota)) =>
        /\ QuotaValues # {}
        /\ \A v \in QuotaValues :
              RoundedUp(v, resources.CpuQuota, resources.CpuPeriod)

\* C4: quota = 0 and period = 0 emit no quota property; quota <= 0 with a
\* nonzero period emits the unbounded sentinel, in addCpuQuota and in
\* genV1ResourcesProperties alike.
C4_QuotaSentinel ==
    Translated =>
        /\ (IsZero(resources.CpuQuota) /\ resources.CpuPeriod = 0) =>
              QuotaValues = {}
        /\ (~Int64Positive(resources.CpuQuota) /\ resources.CpuPeriod # 0) =>
              QuotaValues = {MaxUint64}

\* what C4 says, of addCpuQuota alone
QuotaSentinelAddCpuQuota ==
    propsPc = "addCpuQuota" => C4_QuotaSentinel

\* what genV1ResourcesProperties does instead: quota < 0 with a nonzero
\* period emits the sentinel, quota = 0 emits nothing whatever the period
QuotaSentinelGenV1 ==
    (propsPc = "genV1ResourcesProperties" /\ props.err = NoErr) =>
        /\ IsZero(resources.CpuQuota) => QuotaValues = {}
        /\ (~IsZero(resources.CpuQuota) /\ ~Int64Positive(resources.CpuQuota)
              /\ resources.CpuPeriod # 0) => QuotaValues = {MaxUint64}

-----------------------------------------------------------------------------
(* Claims about concurrent callers                                         *)

\* C6: Apply, Destroy, GetPaths and GetStats exclude one another: no access
\* to the path map overlaps a write to it by another caller.
C6_PathMapAccessesExclusive ==
    \A t, u \in Threads :
        (t # u /\ thr[t].acc = "write") => thr[u].acc = "none"

\* what C6 says, of the callers that take m.mu (Destroy, GetPaths, GetStats)
LockedAccessesExclusive ==
    \A t, u \in Threads :
        (t # u /\ thr[t].pc = "destroy_writing") =>
            thr[u].pc \notin {"destroy_writing", "getpaths_reading", "getstats_reading"}

\* C8: once every Freeze call has returned, the configuration's freezer
\* field is the state of the last freezer write that succeeded (the initial
\* value if none did).
C8_FreezerFieldIsLastSet ==
    (\A t \in Threads : thr[t].pc = "idle") =>
        Cgroups.Resources.Freezer = lastSet

\* where a caller is while it holds m.mu
LockedSections ==
    {"destroy_stop", "destroy_writing", "getpaths_reading", "getstats_reading"}

\* the step in which the Destroy call of t returns, with an error after
\* stopUnit or with success after the assignment of the map
DestroyReturnsError(t) == thr[t].pc = "destroy_stop" /\ thr'[t].pc = "idle"

DestroyReturns(t) ==
    thr[t].pc \in {"destroy_stop", "destroy_writing"} /\ thr'[t].pc = "idle"

\* C24: a Destroy call that returns an error leaves the path map as it was
\* (the map is assigned only after stopUnit returned no error), and m.mu is
\* released on the error return and on the success return: it is held only
\* by a caller inside Destroy, GetPaths or GetStats, never by one that has
\* returned, so a later Destroy, GetPaths or GetStats is not blocked.
C24_DestroyErrorKeepsMap ==
    /\ [](mu # "free" => (mu \in Threads /\ thr[mu].pc \in LockedSections))
    /\ []((\A t \in Threads : thr[t].pc = "idle") => mu = "free")
    /\ [][\A t \in Threads :
            /\ DestroyReturnsError(t) =>
                  (Paths' = Paths /\ thr'[t].err # NoErr /\ mu = t /\ mu' = "free")
            /\ DestroyReturns(t) => (mu = t /\ mu' = "free")
            /\ (thr[t].pc = "destroy_writing" /\ thr'[t].pc = "idle") =>
                  (Paths' = EmptyMap /\ thr'[t].err = NoErr)]_vars

\* a Destroy has returned the error of a stop that timed out; the map still
\* holds the paths an Apply recorded and nobody holds m.mu
C24_Witness ==
    /\ Cgroups.Paths.isNil
    /\ Paths # EmptyMap
    /\ mu = "free"
    /\ \E t \in Threads :
          /\ thr[t].pc = "idle"
          /\ thr[t].err = "Timed out while waiting for systemd to remove "
                              \o getUnitName(Cgroups)
    /\ \A t \in Threads : thr[t].pc = "idle"

-----------------------------------------------------------------------------
(* Claims about the unit-lifecycle layer                                   *)

ResetCalls == {i \in 1..Len(unitCall.log) : unitCall.log[i].call = "ResetFailedUnit"}

StartUnitReturned == unitCall.pc = "done" /\ unitCall.op = "startUnit"

\* C12: when the creation request is accepted, startUnit returns success
\* exactly when the status "done" arrives before the timer fires; on any
\* other status and on timeout it makes exactly one reset-failed call and
\* returns an error, whether or not the reset call fails; it makes no reset
\* call when it succeeds or when the request was rejected.
C12_StartUnitStatus ==
    StartUnitReturned =>
        /\ unitCall.reqErr = NoErr =>
              /\ unitCall.err = NoErr <=> unitCall.status = "done"
              /\ unitCall.status # "done" =>
                    (Cardinality(ResetCalls) = 1 /\ unitCall.err # NoErr)
        /\ (unitCall.err = NoErr \/ unitCall.reqErr # NoErr) => ResetCalls = {}

C12_Witness ==
    /\ StartUnitReturned
    /\ unitCall.reqErr = NoErr
    /\ unitCall.status = "timeout"
    /\ unitCall.resetErr = ResetErr
    /\ Cardinality(ResetCalls) = 1
    /\ unitCall.err = "Timeout waiting for systemd to create runc-g.scope"

\* C13: when the creation request fails with the daemon's "unit already
\* exists" error, startUnit returns that error to its caller.
C13_StartUnitReturnsUnitExists ==
    (StartUnitReturned /\ unitCall.reqErr = UnitExistsErr) =>
        unitCall.err = UnitExistsErr

\* C13, as amended: when the creation request fails with the daemon's
\* "unit already exists" error, startUnit itself returns no error, without
\* waiting for a status and without a reset call; every other error of the
\* request is returned as it is.
C13_StartUnitToleratesUnitExists ==
    (StartUnitReturned /\ unitCall.reqErr # NoErr) =>
        /\ unitCall.err = (IF unitCall.reqErr = UnitExistsErr THEN NoErr
                           ELSE unitCall.reqErr)
        /\ Len(unitCall.log) = 1
        /\ unitCall.log[1].call = "StartTransientUnit"

C13_Witness ==
    /\ StartUnitReturned
    /\ unitCall.reqErr = UnitExistsErr
    /\ unitCall.outcomes = <<UnitExistsErr>>
    /\ unitCall.err = NoErr

\* C15: a call through the retry-on-disconnect wrapper runs the wrapped
\* operation at most twice; a second time only after a first attempt that
\* failed with a disconnect and on a freshly acquired connection; a second
\* disconnect in a row is what the wrapper returns, and the call ends.
C15_AtMostTwoAttempts ==
    LET n == Len(unitCall.outcomes) IN
    /\ n <= 2
    /\ unitCall.conns <= 2
    /\ n = 2 => (unitCall.outcomes[1] = DisconnectedErr /\ unitCall.conns = 2)
    /\ (n = 2 /\ unitCall.outcomes[2] = DisconnectedErr) =>
          (unitCall.pc \in {"wait", "done"} /\ unitCall.reqErr = DisconnectedErr)
    /\ (unitCall.pc = "done" /\ unitCall.op = "setUnitProperties") =>
          unitCall.err = unitCall.reqErr

C15_Witness ==
    /\ unitCall.pc = "done"
    /\ unitCall.op = "setUnitProperties"
    /\ unitCall.outcomes = <<DisconnectedErr, DisconnectedErr>>
    /\ unitCall.conns = 2
    /\ unitCall.err = DisconnectedErr

-----------------------------------------------------------------------------
(* Claims about the version cache                                          *)

ReturnedVersions == UNION {verCall[t].got : t \in VersionCallers}

\* C16: over any number of concurrent and sequential callers of
\* systemdVersion the daemon's Version property is asked for at most once,
\* and every value any caller was ever returned is the same one, the value
\* the package variable keeps.
C16_VersionQueriedOnce ==
    /\ queries <= 1
    /\ ReturnedVersions # {} => (versionOnce = "done" /\ ReturnedVersions = {version})

C16_Witness ==
    /\ queries = 1
    /\ version = 245
    /\ \A t \in VersionCallers : verCall[t].got = {245} /\ verCall[t].pc = "idle"

\* the query of the version failed: the request failed, or its value is not
\* a quoted string, or the string holds no version number
QueryFailed(ans) ==
    \/ ans.err # NoErr
    \/ Unquote(ans.str).err # NoErr
    \/ systemdVersionAtoi(Unquote(ans.str).str).err # NoErr

\* the function of versionOnce has run, and its query failed
FirstQueryFailed ==
    /\ versionOnce = "done"
    /\ \E t \in VersionCallers :
          verCall[t].ans \in VersionAnswers /\ QueryFailed(verCall[t].ans)

\* the names of the properties the last translator call of t emitted
EmittedNames(t) ==
    {verCall[t].out.props[i].Name : i \in 1..Len(verCall[t].out.props)}

GatedNames == {"CPUQuotaPeriodUSec", "AllowedCPUs", "AllowedMemoryNodes"}

\* no translator call has emitted a property that depends on the version,
\* or reported a range that can't be converted
GatesClosed ==
    \A t \in VersionCallers :
        EmittedNames(t) \cap GatedNames = {} /\ verCall[t].out.err = NoErr

\* C22 as stated: when the first query of the version fails (the request
\* fails or the version string can't be parsed), the cached version is -1,
\* the daemon is not asked again, and from then on addCpuQuota does not emit
\* CPUQuotaPeriodUSec and addCpuset emits neither AllowedCPUs nor
\* AllowedMemoryNodes and reports no malformed range.
C22_FailedQueryCachesMinusOne ==
    FirstQueryFailed => (version = -1 /\ queries = 1 /\ GatesClosed)

\* C22, amended: when the first query of the version fails, the cached
\* version is -1 (the request failed, the value is not a quoted string, or
\* its number is out of range) or 0 (the string holds no digits), so below
\* 242 in every case; the daemon is not asked again, and from then on
\* addCpuQuota does not emit CPUQuotaPeriodUSec and addCpuset emits neither
\* AllowedCPUs nor AllowedMemoryNodes and reports no malformed range.
C22_FailedQueryClosesGates ==
    FirstQueryFailed =>
        /\ \A t \in VersionCallers :
              (verCall[t].ans \in VersionAnswers /\ versionOnce = "done") =>
                  LET ans == verCall[t].ans IN
                  version = IF /\ ans.err = NoErr /\ Unquote(ans.str).err = NoErr
                               /\ FirstDigits(Unquote(ans.str).str, 1) = ""
                            THEN 0 ELSE -1
        /\ version < 242
        /\ queries = 1
        /\ GatesClosed
        /\ \A t \in VersionCallers : verCall[t].got \subseteq {version}

\* the version string had no digits and 0 is cached; since then addCpuset
\* has returned for a malformed range and addCpuQuota for a period
C22_Witness ==
    /\ FirstQueryFailed
    /\ version = 0
    /\ queries = 1
    /\ \E t, u \in VersionCallers :
          /\ verCall[t].pc = "idle" /\ verCall[u].pc = "idle"
          /\ verCall[t].out.use.fn = "addCpuset"
          /\ verCall[t].out.use.mems = "3-1"
          /\ verCall[t].out.props = <<>> /\ verCall[t].out.err = NoErr
          /\ verCall[u].out.use.fn = "addCpuQuota"
          /\ EmittedNames(u) = {"CPUQuotaPerSecUSec"}

====
